---- MODULE Spec2Model ----
(***************************************************************************)
(* A model of no-doze: the daemon's ScheduledInhibition (deadline, sleep   *)
(* lock and release timers), the daemon's message loop, and the client's   *)
(* scheduled checks.  Time is a discrete clock `now`; datetimes are the    *)
(* integers 0..MaxTime.                                                    *)
(***************************************************************************)
EXTENDS Integers, Sequences, FiniteSets, TLC

\* ---------------------------------------------------------------- bounds
MaxTime == 3

\* Python's None for an Optional[datetime] / Optional[Timer] field.
None == -1
\* The dummy Timer(0, lambda: None) installed by ScheduledInhibition.__enter__.
Dummy == -2

Times == 0..MaxTime

Max(a, b) == IF a >= b THEN a ELSE b

VARIABLES
    now,                      \* datetime.now()
    inhibit_until,            \* ScheduledInhibition._inhibit_until (None when closed)
    sleep_inhibitor,          \* ScheduledInhibition._sleep_inhibitor is not None
    timer,                    \* ScheduledInhibition._timer: None, Dummy or the deadline of the Timer
    timers,                   \* state of the Timer thread created for each deadline
    sleep_lock,               \* SleepInhibitor._sleep_lock: "none", "taken" or "untaken"
    login_manager_interface,  \* SleepInhibitor._login_manager_interface is not None
    exit_pc,                  \* position of the main thread inside ScheduledInhibition.__exit__
    bound_clients,            \* Server._bound_clients
    do_run,                   \* Server.run is looping (its local do_run)
    server_pc,                \* the Server: "init", "entered", "closing" (inside __exit__), "exited"
    fifo,                     \* the lines written to the daemon's pipe and not yet read
    base_dir,                 \* the entries of BASE_DIR
    client_fifo,              \* NoDozeClient._fifo: the entry it has open, or NoEntry
    open_pipes,               \* files the client has opened and not closed
    client_first,             \* the first line the client wrote to the pipe it opened last
    inhibiting_processes,     \* NoDozeClient._inhibiting_processes
    schedule,                 \* NoDozeClient._schedule: its ScheduledChecks
    client_inhibit_until,     \* NoDozeClient._inhibit_until
    client_run,               \* NoDozeClient._run
    client_loop,              \* NoDozeClient.run is executing
    watcher_pc,               \* position of the thread that runs SleepWatcher.run
    watcher_run,              \* SleepWatcher._run
    watcher_connection,       \* SleepWatcher._connection is not None
    sleep_delay,              \* SleepWatcher._sleep_delay: "none", "open" or "exited"
    delay_lock,               \* _sleep_delay._sleep_lock: "none", "taken" or "untaken"
    sleep_fn,                 \* SleepWatcher._sleep_fn is not None
    awake_fn,                 \* SleepWatcher._awake_fn is not None
    preparing,                \* body of the last PrepareForSleep signal of the login manager
    sig_pipe,                 \* the bytes written to the Server's signal pipe and not yet read
    allow_pc,                 \* where each thread is inside SleepInhibitor.allow_sleep
    last                      \* the operation that ran last, its argument and its result

si_vars == <<inhibit_until, sleep_inhibitor, timer, timers, sleep_lock,
             login_manager_interface, exit_pc>>

\* The daemon's own fields.
server_vars == <<bound_clients, do_run, server_pc>>

\* The client's own fields.
client_fields == <<client_fifo, open_pipes, client_first, inhibiting_processes,
                   schedule, client_inhibit_until, client_run, client_loop>>

\* The pipe, the directory and the client's fields.
client_vars == <<fifo, base_dir, client_fields>>

\* The SleepWatcher's fields and its thread.
watcher_vars == <<watcher_pc, watcher_run, watcher_connection, sleep_delay,
                  delay_lock, sleep_fn, awake_fn, preparing>>

vars == <<now, inhibit_until, sleep_inhibitor, timer, timers, sleep_lock,
          login_manager_interface, exit_pc, bound_clients, do_run, server_pc, fifo,
          base_dir, client_fifo, open_pipes, client_first, inhibiting_processes,
          schedule, client_inhibit_until, client_run, client_loop,
          watcher_pc, watcher_run, watcher_connection, sleep_delay, delay_lock,
          sleep_fn, awake_fn, preparing, sig_pipe, allow_pc, last>>

\* The threads that call allow_sleep of the ScheduledInhibition's
\* SleepInhibitor: that of a Timer, through unset_inhibitor, and the owner,
\* through __exit__.
Threads == {"timer", "main"}

\* Outcomes of the D-Bus Inhibit call and of taking the returned descriptor.
AcquireOutcomes == {"ok", "bus_error", "bad_fd"}

\* The pid and signal sets the daemon deals with.
MaxPid == 2
Pids == 1..MaxPid

\* A line of the pipe as json.loads sees it: whether it parses and to what, the
\* "type" field, the keys present, and the values of "pid" and
\* "expiry_timestamp".
NoLine == [json |-> "none", type |-> "", keys |-> {}, pid |-> None,
           expiry_timestamp |-> None]

Op(op, arg, ret) ==
    [op |-> op, arg |-> arg, ret |-> ret, line |-> NoLine, kills |-> {},
     sent |-> <<>>, handler |-> "none"]

\* --------------------------------------------------------- SleepInhibitor

\* SleepInhibitor.is_inhibiting
is_inhibiting == sleep_lock # "none"

\* SleepInhibitor.inhibit_sleep: the lock afterwards and the result
\* ("True", "False" or "raise").
inhibit_sleep_on(lock, interface, acquire) ==
    IF ~interface THEN [lock |-> lock, ret |-> "raise"]
    ELSE IF lock # "none" THEN [lock |-> lock, ret |-> "False"]
    ELSE IF acquire = "bus_error" THEN [lock |-> "none", ret |-> "raise"]
    ELSE IF acquire = "bad_fd" THEN [lock |-> "untaken", ret |-> "raise"]
    ELSE [lock |-> "taken", ret |-> "True"]

\* inhibit_sleep of the SleepInhibitor of the ScheduledInhibition.
inhibit_sleep(acquire) ==
    inhibit_sleep_on(sleep_lock, login_manager_interface, acquire)

\* SleepInhibitor.allow_sleep: the lock afterwards and the result.
allow_sleep_on(lock) ==
    IF lock = "none" THEN [lock |-> "none", ret |-> "False"]
    ELSE [lock |-> "none", ret |-> "True"]

\* allow_sleep of the SleepInhibitor of the ScheduledInhibition.
allow_sleep == allow_sleep_on(sleep_lock)

\* ---------------------------------------------------- ScheduledInhibition

\* all([self._inhibit_until, self._sleep_inhibitor, self._timer])
Opened == inhibit_until # None /\ sleep_inhibitor /\ timer # None

\* Timer.cancel(): a Timer that has not begun its callback never runs it; one
\* that has begun is not affected.
Cancel(t) ==
    IF t \in Times /\ timers[t] = "pending"
    THEN [timers EXCEPT ![t] = "cancelled"]
    ELSE timers

\* StartTimer with the bug of never starting the new Timer.
StartTimer_NotStarted(ts, until) == ts

\* Lines 50-52: a new Timer for the deadline `until` is created and started.
StartTimer(ts, until) == [ts EXCEPT ![until] = "pending"]

\* create_unlock_callback with the bug of capturing the deadline that was in
\* place before line 48 updated it.
create_unlock_callback_Stale(d) == inhibit_until - 1

\* _create_unlock_callback: the expected_until captured by the callback of the
\* Timer created for the deadline d (self._inhibit_until was just set to d).
create_unlock_callback(d) == d

\* The state change of ScheduledInhibition.__enter__.
enter ==
    /\ inhibit_until' = now
    /\ sleep_inhibitor' = TRUE
    /\ timer' = Dummy
    /\ login_manager_interface' = TRUE
    /\ sleep_lock' = "none"
    /\ UNCHANGED <<timers, exit_pc>>

\* ScheduledInhibition.__enter__ called on an instance that is not open.
Enter ==
    /\ exit_pc = 0
    /\ inhibit_until = None
    /\ enter
    /\ last' = Op("enter", None, "None")
    /\ UNCHANGED <<now, sig_pipe, allow_pc, watcher_vars, server_vars, client_vars>>

\* AlreadyInhibited with the bug of comparing against the clock alone.
AlreadyInhibited_ClockOnly(until) == now >= until

\* AlreadyInhibited with the bug of comparing against the deadline alone.
AlreadyInhibited_DeadlineOnly(until) == inhibit_until >= until

\* The condition of lines 32 and 42: max(datetime.now(), self._inhibit_until) >= until
AlreadyInhibited(until) == Max(now, inhibit_until) >= until

\* Same with the bug of reporting a transition on every return.
Same_ReturnsTrue(ret) ==
    [inhibit_until |-> inhibit_until, sleep_lock |-> sleep_lock, timer |-> timer,
     timers |-> timers, ret |-> "True"]

\* The fields set_inhibitor may change, as they are, with the result `ret`.
Same(ret) ==
    [inhibit_until |-> inhibit_until, sleep_lock |-> sleep_lock, timer |-> timer,
     timers |-> timers, ret |-> ret]

\* set_inhibitor with the bug of recording the deadline only once the lock
\* was acquired.
set_inhibitor_DeadlineAfterAcquire(until, acquire) ==
    IF inhibit_until = None THEN Same("raise")
    ELSE IF AlreadyInhibited(until) THEN Same("False")
    ELSE IF ~Opened THEN Same("False")
    ELSE LET r == inhibit_sleep(acquire) IN
         IF r.ret = "raise"
         THEN [inhibit_until |-> inhibit_until, sleep_lock |-> r.lock, timer |-> timer,
               timers |-> Cancel(timer), ret |-> "raise"]
         ELSE [inhibit_until |-> until, sleep_lock |-> r.lock, timer |-> until,
               timers |-> StartTimer(Cancel(timer), until), ret |-> "True"]

\* ScheduledInhibition.set_inhibitor(until): the fields afterwards and the
\* result, "True", "False" or "raise"; `acquire` is the outcome of the D-Bus
\* call, should inhibit_sleep make one.
set_inhibitor(until, acquire) ==
    IF inhibit_until = None
    THEN Same("raise")    \* line 32: max(datetime.now(), None) raises TypeError
    ELSE IF AlreadyInhibited(until) THEN Same("False")
    ELSE IF ~Opened THEN Same("False")
    ELSE LET r == inhibit_sleep(acquire) IN
         IF r.ret = "raise"
         THEN \* the exception leaves line 49: no new Timer
              [inhibit_until |-> until, sleep_lock |-> r.lock, timer |-> timer,
               timers |-> Cancel(timer), ret |-> "raise"]
         ELSE [inhibit_until |-> until, sleep_lock |-> r.lock, timer |-> until,
               timers |-> StartTimer(Cancel(timer), until), ret |-> "True"]

\* The outcomes a D-Bus call can have now: none is made while a lock is held.
Acquires == IF sleep_lock = "none" THEN AcquireOutcomes ELSE {"ok"}

\* A direct call of ScheduledInhibition.set_inhibitor by the owning thread.
SetInhibitor ==
    /\ exit_pc = 0
    /\ \E until \in Times, acquire \in Acquires :
          LET r == set_inhibitor(until, acquire) IN
          /\ inhibit_until' = r.inhibit_until
          /\ sleep_lock' = r.sleep_lock
          /\ timer' = r.timer
          /\ timers' = r.timers
          /\ last' = Op("set_inhibitor", until, r.ret)
    /\ UNCHANGED <<now, sig_pipe, allow_pc, watcher_vars, sleep_inhibitor, login_manager_interface, exit_pc,
                   server_vars, client_vars>>

\* Elapsed with the bug of a Timer interval that is always zero.
Elapsed_ZeroInterval(d) == TRUE

\* The interval (self._inhibit_until - datetime.now()) of the Timer for the
\* deadline d has elapsed.
Elapsed(d) == now >= d

\* threading.Timer.run: the interval has elapsed and the Timer was not
\* cancelled; the callback is now committed to run.
TimerFire ==
    /\ \E d \in Times :
          /\ timers[d] = "pending"
          /\ Elapsed(d)
          /\ timers' = [timers EXCEPT ![d] = "started"]
          /\ last' = Op("timer_fire", d, "None")
    /\ UNCHANGED <<now, sig_pipe, allow_pc, watcher_vars, inhibit_until, sleep_inhibitor, timer, sleep_lock,
                   login_manager_interface, exit_pc, server_vars, client_vars>>

\* unset_inhibitor with the bug of releasing whatever the state is.
unset_inhibitor_Unchecked(set_at) == [lock |-> allow_sleep.lock, ret |-> "True"]

\* unset_inhibitor with the bug of not comparing set_at with the deadline.
unset_inhibitor_NoRecheck(set_at) ==
    IF ~Opened THEN [lock |-> sleep_lock, ret |-> "False"]
    ELSE [lock |-> allow_sleep.lock, ret |-> "True"]

\* ScheduledInhibition.unset_inhibitor(set_at) with force = False: the lock
\* afterwards and the result.
unset_inhibitor(set_at) ==
    IF ~Opened THEN [lock |-> sleep_lock, ret |-> "False"]
    ELSE IF set_at # inhibit_until THEN [lock |-> sleep_lock, ret |-> "False"]
    ELSE [lock |-> allow_sleep.lock, ret |-> "True"]

\* The callback of _create_unlock_callback, run by the Timer thread under
\* _schedule_lock.
UnsetInhibitor ==
    /\ \E d \in Times :
          /\ timers[d] = "started"
          /\ timers' = [timers EXCEPT ![d] = "done"]
          /\ sleep_lock' = unset_inhibitor(create_unlock_callback(d)).lock
          /\ last' = Op("unset_inhibitor", d,
                        unset_inhibitor(create_unlock_callback(d)).ret)
    /\ UNCHANGED <<now, sig_pipe, allow_pc, watcher_vars, inhibit_until, sleep_inhibitor, timer,
                   login_manager_interface, exit_pc, server_vars, client_vars>>

\* ScheduledInhibition.__exit__, lines 91-92: cancel the Timer.
ExitCancel ==
    /\ exit_pc = 0
    /\ timers' = IF timer # None THEN Cancel(timer) ELSE timers
    /\ exit_pc' = 1
    /\ last' = Op("exit_cancel", None, "None")
    /\ UNCHANGED <<now, sig_pipe, allow_pc, watcher_vars, inhibit_until, sleep_inhibitor, timer, sleep_lock,
                   login_manager_interface, server_vars, client_vars>>

\* ScheduledInhibition.__exit__, lines 93-94: SleepInhibitor.__exit__, which
\* releases a held lock and drops the bus connection (outside _schedule_lock).
ExitSleepInhibitor ==
    /\ exit_pc = 1
    /\ IF sleep_inhibitor
       THEN /\ sleep_lock' = "none"
            /\ login_manager_interface' = FALSE
       ELSE UNCHANGED <<sleep_lock, login_manager_interface>>
    /\ exit_pc' = 2
    /\ last' = Op("exit_sleep_inhibitor", None, "None")
    /\ UNCHANGED <<now, sig_pipe, allow_pc, watcher_vars, inhibit_until, sleep_inhibitor, timer, timers,
                   server_vars, client_vars>>

\* ScheduledInhibition.__exit__, lines 95-98: the fields are set to None under
\* _schedule_lock.
ExitNull ==
    /\ exit_pc = 2
    /\ inhibit_until' = None
    /\ timer' = None
    /\ sleep_inhibitor' = FALSE
    /\ exit_pc' = 0
    /\ last' = Op("exit_null", None, "None")
    /\ UNCHANGED <<now, sig_pipe, allow_pc, watcher_vars, timers, sleep_lock, login_manager_interface,
                   server_vars, client_vars>>

\* The clock advances.
Tick ==
    /\ now < MaxTime
    /\ now' = now + 1
    /\ last' = Op("tick", None, "None")
    /\ UNCHANGED <<si_vars, server_vars, client_vars, watcher_vars, sig_pipe, allow_pc>>

\* ScheduledInhibition.__init__
InitSI ==
    /\ inhibit_until = None
    /\ sleep_inhibitor = FALSE
    /\ timer = None
    /\ timers = [d \in Times |-> "none"]
    /\ sleep_lock = "none"
    /\ login_manager_interface = FALSE
    /\ exit_pc = 0
    /\ allow_pc = [t \in Threads |-> "idle"]

\* Server.__init__
InitServer ==
    /\ bound_clients = {}
    /\ do_run = FALSE
    /\ server_pc = "init"
    /\ sig_pipe = <<>>

\* The pid of the client process.
ClientPid == 1

\* The conditions a client may register; condition c has the period
\* Period + c - 1.
MaxConds == 2
Conds == 1..MaxConds
Period == 1
period(c) == Period + c - 1

\* An entry of BASE_DIR: the name begins with `stem`, continues with the
\* digits of `pid` (None: no digit follows the stem) and, when `suffix`, with
\* further characters.
Entry(stem, pid, suffix) == [stem |-> stem, pid |-> pid, suffix |-> suffix]
NoEntry == Entry("", None, FALSE)

\* The pid of the daemon process and the name of its pipe.
DaemonPid == MaxPid + 1
DaemonFifo == Entry("FIFO_", DaemonPid, FALSE)

\* The names that may appear in BASE_DIR: the daemon's pipe, the pipe of
\* another pid and that name with a suffix (as in "FIFO_4.bak").
Entries ==
    {DaemonFifo,
     Entry("FIFO_", DaemonPid + 1, FALSE),
     Entry("FIFO_", DaemonPid + 1, TRUE)}

\* NoDozeClient.__init__: nothing is registered or open; the directory and
\* the pipe are empty.
InitClient ==
    /\ fifo = <<>>
    /\ base_dir = {}
    /\ client_fifo = NoEntry
    /\ open_pipes = 0
    /\ client_first = NoLine
    /\ inhibiting_processes = {}
    /\ schedule = <<>>
    /\ client_inhibit_until = 0
    /\ client_run = TRUE
    /\ client_loop = FALSE

\* No SleepWatcher has been made yet; the system is awake.
InitWatcher ==
    /\ watcher_pc = "init"
    /\ watcher_run = FALSE
    /\ watcher_connection = FALSE
    /\ sleep_delay = "none"
    /\ delay_lock = "none"
    /\ sleep_fn = FALSE
    /\ awake_fn = FALSE
    /\ preparing = FALSE

InitComponent ==
    /\ now = 0
    /\ InitSI
    /\ InitServer
    /\ InitClient
    /\ InitWatcher
    /\ last = Op("init", None, "None")

NextComponent ==
    \/ Enter
    \/ SetInhibitor
    \/ TimerFire
    \/ UnsetInhibitor
    \/ ExitCancel
    \/ ExitSleepInhibitor
    \/ ExitNull
    \/ Tick

\* ScheduledInhibition used directly through its API.
SpecSI == InitComponent /\ [][NextComponent]_vars

\* The same, with the scheduling the threads get: the clock advances, a Timer
\* whose interval has elapsed runs, and a callback waiting for _schedule_lock
\* obtains it.
FairSpecSI ==
    /\ SpecSI
    /\ WF_vars(Tick)
    /\ WF_vars(TimerFire)
    /\ WF_vars(UnsetInhibitor)

\* The instance is open and its owner is not inside __exit__.
InScope == Opened /\ exit_pc = 0

\* The Timer created for the current deadline has not yet run its callback.
ReleasePending ==
    /\ timer = inhibit_until
    /\ timers[inhibit_until] \in {"pending", "started"}

\* --------------------------------------------------------------- messages

\* The keys of a message line that the wire format lists for every message.
WireKeys == {"type", "version", "pid", "uid"}

\* A BindMessage line from pid p carrying the wire keys and `extra`.
BindLine(p, extra) ==
    [json |-> "object", type |-> "BindMessage", keys |-> WireKeys \cup extra,
     pid |-> p, expiry_timestamp |-> None]

\* An InhibitMessage line from pid p with expiry t.
InhibitLine(p, t) ==
    [json |-> "object", type |-> "InhibitMessage",
     keys |-> WireKeys \cup {"expiry_timestamp"}, pid |-> p, expiry_timestamp |-> t]

\* A JSON object of another type, a JSON value that is no object, and a line
\* that is no JSON.
UnknownTypeLine ==
    [json |-> "object", type |-> "Unknown", keys |-> WireKeys, pid |-> 1,
     expiry_timestamp |-> None]
ScalarLine ==
    [json |-> "scalar", type |-> "", keys |-> {}, pid |-> None,
     expiry_timestamp |-> None]
InvalidLine ==
    [json |-> "invalid", type |-> "", keys |-> {}, pid |-> None,
     expiry_timestamp |-> None]

\* A line whose bytes are no UTF-8 text.
NotUtf8Line ==
    [json |-> "not_utf8", type |-> "", keys |-> {}, pid |-> None,
     expiry_timestamp |-> None]

\* The lines a writer may put on the daemon's pipe.
Lines ==
    {BindLine(p, extra) : p \in Pids, extra \in {{}, {"attempt"}}}
    \cup {InhibitLine(p, t) : p \in Pids, t \in Times}
    \cup {UnknownTypeLine, ScalarLine, InvalidLine, NotUtf8Line}

\* What json.loads(..., cls=MessageDecoder) yields: a message, a value that is
\* no message, or an exception.
Message(type, pid, expiry_timestamp) ==
    [type |-> type, pid |-> pid, expiry_timestamp |-> expiry_timestamp]
DecodeError == Message("DecodeError", None, None)
ScalarValue == Message("scalar", None, None)

\* datetime.fromtimestamp: POSIX seconds to a datetime, both counted in ticks
\* of the clock.
fromtimestamp(ts) == ts

\* MessageDecoder.object_hook
object_hook(d) ==
    IF d.type = "BindMessage"
    THEN IF {"pid", "uid", "attempt"} \subseteq d.keys
         THEN Message("BindMessage", d.pid, None)
         ELSE DecodeError   \* KeyError
    ELSE IF d.type = "InhibitMessage"
    THEN IF {"pid", "uid", "expiry_timestamp"} \subseteq d.keys
         THEN Message("InhibitMessage", d.pid, fromtimestamp(d.expiry_timestamp))
         ELSE DecodeError   \* KeyError
    ELSE DecodeError        \* ValueError: could not match the type

\* json.loads(message_json, cls=MessageDecoder)
loads(line) ==
    IF line.json \in {"invalid", "not_utf8"} THEN DecodeError
    ELSE IF line.json = "scalar" THEN ScalarValue
    ELSE object_hook(line)

\* ----------------------------------------------------------------- Server

\* Server.ABOUT_TO_SLEEP_SIGNAL and the signals Server.__enter__ handles; a
\* failed read of the signal pipe is ReadError.
Signals == {"SIGINT", "SIGTERM", "SIGHUP", "SIGQUIT", "ABOUT_TO_SLEEP"}
ReadError == "read_error"

\* range(3) in _handle_about_to_sleep
KillAttempts == 3

\* Server.inhibited
inhibited == inhibit_until >= now

\* The fields _receive_message may change, as they are, with the result `ret`.
SameServer(ret) ==
    [si |-> Same(ret), bound_clients |-> bound_clients, ret |-> ret]

\* handle_bind with the bug of tracking a single bound client.
handle_bind_Single(msg) ==
    [SameServer("connecting") EXCEPT !.bound_clients = {msg.pid}]

\* Server._handle_bind: the bound clients afterwards; the result names the
\* branch taken.
handle_bind(msg) ==
    IF msg.pid \in bound_clients
    THEN SameServer("already_bound")
    ELSE [SameServer("connecting") EXCEPT !.bound_clients = bound_clients \cup {msg.pid}]

\* handle_inhibit with the bug of ignoring every message.
handle_inhibit_Ignore(msg, acquire) == SameServer("ignored")

\* handle_inhibit with the bug of not checking that the sender is bound.
handle_inhibit_NoBoundCheck(msg, acquire) ==
    LET r == set_inhibitor(msg.expiry_timestamp, acquire) IN
    [si |-> r, bound_clients |-> bound_clients, ret |-> r.ret]

\* Server._handle_inhibit: the result is "ignored" or that of set_inhibitor.
handle_inhibit(msg, acquire) ==
    IF msg.pid \notin bound_clients
    THEN SameServer("ignored")
    ELSE LET r == set_inhibitor(msg.expiry_timestamp, acquire) IN
         [si |-> r, bound_clients |-> bound_clients, ret |-> r.ret]

\* The exception of bytes.decode, which _receive_message does not catch.
UnicodeDecodeError == "UnicodeDecodeError"

\* Server._receive_message for the line read from the pipe.
receive_message(line, acquire) ==
    LET message == loads(line) IN
    IF line.json = "not_utf8"
    THEN SameServer(UnicodeDecodeError)   \* raw_message.decode(), outside the try
    ELSE IF message.type = "DecodeError" THEN SameServer("decode_error")
    ELSE IF message.type = "BindMessage" THEN handle_bind(message)
    ELSE IF message.type = "InhibitMessage" THEN handle_inhibit(message, acquire)
    ELSE SameServer("unrecognized")   \* ValueError, caught and logged

\* subprocess.run(["ps", "p", pid, "o", "cmd", "h"]): the process is gone
\* (returncode 1, nothing printed), or it runs another command, or it runs
\* no_dozed.py; ps ends the line it prints with a newline.
PsOutcomes == {"gone", "other", "daemon"}
Ps(outcome) ==
    [returncode |-> IF outcome = "gone" THEN 1 ELSE 0,
     stdout |-> [cmd |-> IF outcome = "gone" THEN "" ELSE outcome,
                 newline |-> outcome # "gone"]]

\* found.stdout.endswith(os.path.basename(__file__)): the output has to end
\* with the very characters of the basename.
endswith(stdout) == stdout.cmd = "daemon" /\ ~stdout.newline

\* pid == os.getpid() at line 161: pid is the str match[1], os.getpid() an
\* int, and a str never equals an int.
PidIsOwn(pid, own) == FALSE

\* matcher.match(maybe_fifo) for the names glob returned: re.match anchors
\* FIFO_(\d+) at the start of the name only.
StaleCandidate(e) == e.stem = "FIFO_" /\ e.pid # None

\* Line 161-162: the entry e is taken for stale.
IsStale(e, ps, own) ==
    LET found == ps[e.pid] IN
    \/ found.returncode # 0
    \/ PidIsOwn(e.pid, own)
    \/ found.returncode = 0 /\ ~endswith(found.stdout)

\* Server._clear_stale_fifos run by the process `own` on the directory dir;
\* ps[n] is what the lookup of pid n returns and `early` are the names glob
\* yields before the first one that is in use.  The result is the directory
\* afterwards and the exception raised.
clear_stale_fifos(dir, ps, early, own) ==
    LET candidates == {e \in dir : StaleCandidate(e)}
        in_use == {e \in candidates : ~IsStale(e, ps, own)}
    IN  IF in_use = {}
        THEN [dir |-> dir \ candidates, exc |-> "none"]
        ELSE [dir |-> dir \ ((candidates \cap early) \ in_use),
              exc |-> "FileExistsError"]

\* Server.__enter__: _open sweeps the directory and makes the pipe, then the
\* ScheduledInhibition is created and entered.  When the sweep raises nothing
\* else is done.
ServerEnterWith(ps, early) ==
    /\ server_pc = "init"
    /\ inhibit_until = None
    /\ ~sleep_inhibitor
    /\ LET swept == clear_stale_fifos(base_dir, ps, early, DaemonPid) IN
       IF swept.exc # "none"
       THEN /\ base_dir' = swept.dir
            /\ last' = Op("server_enter", None, swept.exc)
            /\ UNCHANGED <<si_vars, server_pc>>
       ELSE /\ enter
            /\ base_dir' = swept.dir \cup {DaemonFifo}
            /\ server_pc' = "entered"
            /\ last' = Op("server_enter", None, "None")
    /\ UNCHANGED <<now, sig_pipe, allow_pc, watcher_vars, bound_clients, do_run, fifo, client_fields>>

\* What ps reports to the daemon: its own pid runs no_dozed.py, the other
\* pid is in the state `other`.
PsSeenBy(own, other) ==
    [n \in {DaemonPid, DaemonPid + 1} |-> IF n = own THEN Ps("daemon") ELSE Ps(other)]

\* Server.__enter__ with any state of the other pid and any order of the
\* names.
ServerEnter ==
    \E other \in PsOutcomes, early \in SUBSET base_dir :
       ServerEnterWith(PsSeenBy(DaemonPid, other), early)

\* Server.run is called.
RunStart ==
    /\ server_pc = "entered"
    /\ Opened
    /\ ~do_run
    /\ do_run' = TRUE
    /\ last' = Op("run", None, "None")
    /\ UNCHANGED <<now, sig_pipe, allow_pc, watcher_vars, si_vars, bound_clients, server_pc, client_vars>>

\* Server.run calling _receive_message for `line`, the line that readline
\* returned; an exception that _receive_message lets through ends run.
ReceiveLine(line) ==
    \E acquire \in Acquires :
       LET r == receive_message(line, acquire) IN
       /\ inhibit_until' = r.si.inhibit_until
       /\ sleep_lock' = r.si.sleep_lock
       /\ timer' = r.si.timer
       /\ timers' = r.si.timers
       /\ bound_clients' = r.bound_clients
       /\ do_run' = (r.ret # UnicodeDecodeError)
       /\ last' = [Op("receive_message", None, r.ret) EXCEPT !.line = line]

\* Server.run, the pipe is readable: _receive_message reads one line, written
\* by any process that can open the pipe.
ReceiveMessage ==
    /\ do_run
    /\ \E line \in Lines : ReceiveLine(line)
    /\ UNCHANGED <<now, sig_pipe, allow_pc, watcher_vars, sleep_inhibitor, login_manager_interface, exit_pc,
                   server_pc, client_vars>>

\* signal_attempts with the bug of not leaving the loop once the pid was
\* signalled.
RECURSIVE signal_attempts_NoBreak(_, _, _, _)
signal_attempts_NoBreak(i, bound, count, raising) ==
    IF i > KillAttempts THEN [bound |-> bound, count |-> count]
    ELSE IF i > raising
    THEN signal_attempts_NoBreak(i + 1, TRUE, count + 1, raising)
    ELSE signal_attempts_NoBreak(i + 1, bound, count, raising)

\* The loop `for _ in range(3)` of _handle_about_to_sleep for one pid, from
\* its attempt i on: `bound` tells whether the pid is in _bound_clients,
\* `count` is the number of os.kill calls that returned, and the first
\* `raising` calls of os.kill raise.
RECURSIVE signal_attempts(_, _, _, _)
signal_attempts(i, bound, count, raising) ==
    IF i > KillAttempts THEN [bound |-> bound, count |-> count]
    ELSE IF bound THEN [bound |-> bound, count |-> count]
    ELSE IF i > raising
    THEN signal_attempts(i + 1, TRUE, count + 1, raising)
    ELSE signal_attempts(i + 1, FALSE, count, raising)

\* The sum of f over the set S.
RECURSIVE Sum(_, _)
Sum(f, S) ==
    IF S = {} THEN 0
    ELSE LET x == CHOOSE x \in S : TRUE IN f[x] + Sum(f, S \ {x})

\* Server._handle_about_to_sleep; fails[p] is the number of os.kill attempts
\* for pid p that raise before one succeeds (KillAttempts: all of them raise).
\* The operation records the pids signalled and the number of os.kill calls
\* that returned.
handle_about_to_sleep(fails) ==
    LET clients == bound_clients
        done == [p \in clients |-> signal_attempts(1, FALSE, 0, fails[p])]
        delivered == {p \in clients : done[p].bound}
    IN  /\ bound_clients' = delivered
        /\ last' = [Op("about_to_sleep", Sum([p \in clients |-> done[p].count], clients), "True")
                      EXCEPT !.kills = {<<p, "ABOUT_TO_SLEEP">> : p \in delivered}]

\* _receive_signal with the bug of returning True for every signal byte.
ReceiveSig_NeverStops(sig) ==
    /\ do_run
    /\ IF sig = ReadError
       THEN /\ do_run' = FALSE
            /\ last' = Op("receive_signal", None, "False")
            /\ UNCHANGED bound_clients
       ELSE IF sig = "ABOUT_TO_SLEEP"
       THEN /\ \E fails \in [bound_clients -> 0..KillAttempts] :
                  handle_about_to_sleep(fails)
            /\ UNCHANGED do_run
       ELSE /\ last' = Op("receive_signal", None, "True")
            /\ UNCHANGED <<do_run, bound_clients>>
    /\ UNCHANGED <<now, sig_pipe, allow_pc, watcher_vars, si_vars, server_pc, client_vars>>

\* receive_signal with the bug of ignoring the about-to-sleep byte.
receive_signal_IgnoresSleep(sig) ==
    /\ do_run' = (sig \notin {ReadError, "SIGTERM", "SIGINT", "SIGHUP"})
    /\ last' = Op("receive_signal", None, IF do_run' THEN "True" ELSE "False")
    /\ UNCHANGED bound_clients

\* Server._receive_signal for the byte sig (or a failed read): its result
\* becomes the do_run of Server.run.
receive_signal(sig) ==
    IF sig = ReadError
    THEN /\ do_run' = FALSE
         /\ last' = Op("receive_signal", None, "False")
         /\ UNCHANGED bound_clients
    ELSE IF sig \in {"SIGTERM", "SIGINT", "SIGHUP"}
    THEN /\ do_run' = FALSE
         /\ last' = Op("receive_signal", None, "False")
         /\ UNCHANGED bound_clients
    ELSE IF sig = "ABOUT_TO_SLEEP"
    THEN /\ \E fails \in [bound_clients -> 0..KillAttempts] :
               handle_about_to_sleep(fails)
         /\ UNCHANGED do_run
    ELSE /\ last' = Op("receive_signal", None, "True")
         /\ UNCHANGED <<do_run, bound_clients>>

\* Server.run, the signal pipe is readable and _receive_signal reads the byte
\* sig, whatever wrote it.
ReceiveSig(sig) ==
    /\ do_run
    /\ receive_signal(sig)
    /\ UNCHANGED <<now, sig_pipe, allow_pc, watcher_vars, si_vars, server_pc, client_vars>>

\* Any byte arrives on the signal pipe, or the read fails.
ReceiveSignal == \E sig \in Signals \cup {ReadError} : ReceiveSig(sig)

\* Server.__init__
Init ==
    /\ now = 0
    /\ InitSI
    /\ InitServer
    /\ InitClient
    /\ InitWatcher
    /\ last = Op("init", None, "None")

Next ==
    \/ ServerEnter
    \/ RunStart
    \/ ReceiveMessage
    \/ ReceiveSignal
    \/ TimerFire
    \/ UnsetInhibitor
    \/ Tick

\* The daemon: its loop, its ScheduledInhibition and the Timer threads.
Spec == Init /\ [][Next]_vars


\* ----------------------------------------------------------------- client

\* glob.glob(pathname="FIFO_*"): the names that begin with the prefix.
Glob(e) == e.stem = "FIFO_"

\* matcher.match of FIFO_(\d+): re.match anchors the pattern at the start of
\* the name only, whatever follows the digits.
Match(e) == e.stem = "FIFO_" /\ e.pid # None

\* NoDozeClient._identify_fifo: the one candidate of the directory, or None.
identify_fifo(dir) ==
    LET found == {e \in dir : Glob(e) /\ Match(e)} IN
    IF Cardinality(found) # 1 THEN NoEntry ELSE CHOOSE e \in found : TRUE

\* The client's fields during one pass of its loop, with the lines written
\* (`sent`), the file they were written to (`to`), the exception that ended
\* the pass (`exc`), the number of does_inhibit calls made on each
\* condition (`calls`) and the branch of the signal dispatch that ran
\* (`handler`: "shutdown", "about_to_sleep", "unbind" or "none").
ClientState ==
    [fifo |-> client_fifo, open_pipes |-> open_pipes, first |-> client_first,
     schedule |-> schedule, inhibit_until |-> client_inhibit_until,
     run |-> client_run, sent |-> <<>>, to |-> NoEntry, exc |-> "none",
     calls |-> [c \in Conds |-> 0], handler |-> "none"]

\* NoDozeClient.send_message: the line is written to the open pipe.
send_message(cs, line) ==
    IF cs.fifo = NoEntry THEN [cs EXCEPT !.exc = "RuntimeError"]
    ELSE [cs EXCEPT !.sent = Append(@, line), !.to = cs.fifo,
                    !.first = IF @ = NoLine THEN line ELSE @]

\* BindMessage.__init__(self, pid, uid, attempt) called with the keyword
\* arguments kwargs: a missing or unexpected argument raises TypeError.
BindMessageParams == {"pid", "uid", "attempt"}
NewBindMessage(kwargs) ==
    IF kwargs = BindMessageParams THEN "BindMessage" ELSE "TypeError"

\* NoDozeClient.open_fifo; open_ok tells whether open() succeeds.
open_fifo(cs, open_ok) ==
    LET fifo_path == identify_fifo(base_dir) IN
    IF fifo_path = NoEntry THEN cs
    ELSE IF ~open_ok THEN cs
    ELSE LET opened == [cs EXCEPT !.fifo = fifo_path, !.open_pipes = @ + 1,
                                  !.first = NoLine] IN
         \* line 116: BindMessage(pid=os.getpid(), uid=os.getuid())
         IF NewBindMessage({"pid", "uid"}) = "TypeError"
         THEN [opened EXCEPT !.exc = "TypeError"]
         ELSE send_message(opened, BindLine(ClientPid, {"attempt"}))

\* NoDozeClient.close_fifo
close_fifo(cs) ==
    IF cs.fifo = NoEntry THEN cs
    ELSE [cs EXCEPT !.fifo = NoEntry, !.open_pipes = @ - 1]

\* The schedule is a PriorityQueue of ScheduledChecks ordered by time.
ScheduledCheck(time, c) == [time |-> time, inhibiting_process |-> c]

\* ScheduledCheck.__lt__: checks are compared by their time alone.
Less(a, b) == a.time < b.time

\* heapq._siftdown: the item at pos moves towards the root while it is less
\* than its parent.  Positions count from 1: the parent of pos is pos \div 2.
RECURSIVE siftdown_loop(_, _, _, _)
siftdown_loop(heap, startpos, pos, newitem) ==
    IF pos > startpos /\ Less(newitem, heap[pos \div 2])
    THEN siftdown_loop([heap EXCEPT ![pos] = heap[pos \div 2]],
                       startpos, pos \div 2, newitem)
    ELSE [heap EXCEPT ![pos] = newitem]

siftdown(heap, startpos, pos) == siftdown_loop(heap, startpos, pos, heap[pos])

\* heapq._siftup: the smaller child is moved up until a leaf is reached; the
\* right child is taken unless the left one is less than it.
RECURSIVE siftup_loop(_, _, _)
siftup_loop(heap, pos, newitem) ==
    LET childpos == 2 * pos
        rightpos == childpos + 1
        smaller == IF rightpos <= Len(heap) /\ ~Less(heap[childpos], heap[rightpos])
                   THEN rightpos ELSE childpos
    IN  IF childpos <= Len(heap)
        THEN siftup_loop([heap EXCEPT ![pos] = heap[smaller]], smaller, newitem)
        ELSE [heap |-> [heap EXCEPT ![pos] = newitem], pos |-> pos]

siftup(heap, pos) ==
    LET leaf == siftup_loop(heap, pos, heap[pos])
    IN  siftdown(leaf.heap, pos, leaf.pos)

\* heappush with the bug of not restoring the heap order.
heappush_NoSift(heap, item) == Append(heap, item)

\* heapq.heappush
heappush(heap, item) == siftdown(Append(heap, item), 1, Len(heap) + 1)

\* heapq.heappop on a heap that is not empty: the item returned and the heap
\* that is left.
heappop(heap) ==
    LET lastelt == heap[Len(heap)]
        rest == SubSeq(heap, 1, Len(heap) - 1)
    IN  IF rest # <<>>
        THEN [item |-> heap[1], heap |-> siftup([rest EXCEPT ![1] = lastelt], 1)]
        ELSE [item |-> lastelt, heap |-> rest]

\* offer with the bug of dropping the element.
offer_Drop(sched, e) == sched

\* PriorityQueue.offer
offer(sched, e) == heappush(sched, e)

\* PriorityQueue.isEmpty
isEmpty(sched) == Len(sched) = 0

\* PriorityQueue.peek on a queue that is not empty
peek(sched) == sched[1]

\* PriorityQueue.poll on a queue that is not empty: the queue that is left
\* (the element returned is the one peek returns).
poll(sched) == heappop(sched).heap

\* The PriorityQueue on its own, driven through its operations.  The queue
\* is `schedule`; offers stop at MaxQueue elements.
MaxQueue == 4

PQUnchanged ==
    UNCHANGED <<now, sig_pipe, allow_pc, watcher_vars, si_vars, server_vars, fifo, base_dir, client_fifo,
                open_pipes, client_first, inhibiting_processes,
                client_inhibit_until, client_run, client_loop>>

\* PriorityQueue.offer
PQOffer ==
    /\ Len(schedule) < MaxQueue
    /\ \E t \in Times, c \in Conds :
          /\ schedule' = offer(schedule, ScheduledCheck(t, c))
          /\ last' = Op("pq_offer", ScheduledCheck(t, c), "None")
    /\ PQUnchanged

\* PriorityQueue.poll: _assert_non_empty raises ValueError on an empty queue.
PQPoll ==
    /\ IF isEmpty(schedule)
       THEN /\ last' = Op("pq_poll", None, "ValueError")
            /\ UNCHANGED schedule
       ELSE /\ last' = Op("pq_poll", heappop(schedule).item, "item")
            /\ schedule' = heappop(schedule).heap
    /\ PQUnchanged

\* PriorityQueue.peek
PQPeek ==
    /\ IF isEmpty(schedule)
       THEN last' = Op("pq_peek", None, "ValueError")
       ELSE last' = Op("pq_peek", peek(schedule), "item")
    /\ UNCHANGED schedule
    /\ PQUnchanged

NextPQ == PQOffer \/ PQPoll \/ PQPeek

SpecPQ == Init /\ [][NextPQ]_vars

\* The loop of NoDozeClient._handle_scheduled_checks; answers[c] is what
\* does_inhibit of condition c returns during this pass, calls[c] the number
\* of times it has been called.
RECURSIVE scheduled_checks_loop(_, _, _, _, _)
scheduled_checks_loop(sched, until, sleep_increased, calls, answers) ==
    IF sched = <<>>
    THEN [schedule |-> sched, inhibit_until |-> until, ret |-> "ValueError",
          calls |-> calls]
    ELSE IF now >= peek(sched).time
    THEN LET last_scheduled_time == peek(sched).time
             inhibiting_process == peek(sched).inhibiting_process
             next == last_scheduled_time + period(inhibiting_process)
             scheduled_time == IF next < now
                               THEN now + period(inhibiting_process)
                               ELSE next
             increase == answers[inhibiting_process] /\ scheduled_time > until
         IN  scheduled_checks_loop(
                offer(poll(sched), ScheduledCheck(scheduled_time, inhibiting_process)),
                IF increase THEN scheduled_time ELSE until,
                sleep_increased \/ increase,
                [calls EXCEPT ![inhibiting_process] = @ + 1],
                answers)
    ELSE [schedule |-> sched, inhibit_until |-> until,
          ret |-> IF sleep_increased THEN "True" ELSE "False",
          calls |-> calls]

\* NoDozeClient._handle_scheduled_checks
handle_scheduled_checks(sched, until, sleep_increased, answers) ==
    scheduled_checks_loop(sched, until, sleep_increased, [c \in Conds |-> 0], answers)

\* The greatest element of a set of times that is not empty.
MaxOf(S) == CHOOSE m \in S : \A x \in S : x <= m

\* _handle_unscheduled_checks with the bug of assigning _inhibit_until without
\* comparing it with the time wanted.
handle_unscheduled_checks_NoCompare(until, answers) ==
    LET wanted == {now + period(c) : c \in {p \in inhibiting_processes : answers[p]}}
    IN  [inhibit_until |-> IF wanted = {} THEN until ELSE MaxOf(wanted),
         ret |-> wanted # {},
         calls |-> [c \in Conds |-> IF c \in inhibiting_processes THEN 1 ELSE 0]]

\* _handle_unscheduled_checks with the bug of asking only the conditions
\* whose scheduled check is due.
handle_unscheduled_checks_OnlyDue(until, answers) ==
    LET due == {p \in inhibiting_processes :
                  \E i \in 1..Len(schedule) :
                     schedule[i].inhibiting_process = p /\ schedule[i].time <= now}
        wanted == {now + period(c) : c \in {p \in due : answers[p]}}
        reached == MaxOf(wanted \cup {until})
    IN  [inhibit_until |-> reached, ret |-> reached > until,
         calls |-> [c \in Conds |-> IF c \in due THEN 1 ELSE 0]]

\* NoDozeClient._handle_unscheduled_checks: every registered condition is
\* asked; the schedule is not touched.
handle_unscheduled_checks(until, answers) ==
    LET wanted == {now + period(c) : c \in {p \in inhibiting_processes : answers[p]}}
        reached == MaxOf(wanted \cup {until})
    IN  [inhibit_until |-> reached, ret |-> reached > until,
         calls |-> [c \in Conds |-> IF c \in inhibiting_processes THEN 1 ELSE 0]]

\* The signal bytes the client may read from its signal pipe; ReadError is an
\* os.read that raises.
ClientSignals ==
    {"SIGINT", "SIGTERM", "SIGHUP", "SIGQUIT", "ABOUT_TO_SLEEP", "UNBIND", ReadError}
NoSignal == "none"

\* dispatch with the bug of handling the about-to-sleep signal without a pipe.
dispatch_NoDrop(cs, sig, answers) ==
    IF sig = NoSignal THEN cs
    ELSE IF sig \in {"SIGTERM", "SIGINT", "SIGHUP"}
    THEN [cs EXCEPT !.run = FALSE, !.handler = "shutdown"]
    ELSE IF sig = "ABOUT_TO_SLEEP"
    THEN LET r == handle_unscheduled_checks(cs.inhibit_until, answers)
             checked == [cs EXCEPT !.inhibit_until = r.inhibit_until,
                                   !.calls = [c \in Conds |-> @[c] + r.calls[c]],
                                   !.handler = "about_to_sleep"]
         IN  IF r.ret /\ cs.fifo # NoEntry
             THEN send_message(checked, InhibitLine(ClientPid, r.inhibit_until))
             ELSE checked
    ELSE IF sig = "UNBIND" THEN [close_fifo(cs) EXCEPT !.handler = "unbind"]
    ELSE cs

\* dispatch with the bug of treating the shutdown signals as unrecognized.
dispatch_IgnoreShutdown(cs, sig, answers) ==
    IF sig = NoSignal THEN cs
    ELSE IF cs.fifo = NoEntry THEN cs
    ELSE IF sig = "ABOUT_TO_SLEEP"
    THEN LET r == handle_unscheduled_checks(cs.inhibit_until, answers)
             checked == [cs EXCEPT !.inhibit_until = r.inhibit_until,
                                   !.calls = [c \in Conds |-> @[c] + r.calls[c]],
                                   !.handler = "about_to_sleep"]
         IN  IF r.ret
             THEN send_message(checked, InhibitLine(ClientPid, r.inhibit_until))
             ELSE checked
    ELSE IF sig = "UNBIND" THEN [close_fifo(cs) EXCEPT !.handler = "unbind"]
    ELSE cs

\* NoDozeClient.run, lines 225-242: the signal read after poll is dispatched.
dispatch(cs, sig, answers) ==
    IF sig = NoSignal THEN cs
    ELSE IF sig \in {"SIGTERM", "SIGINT", "SIGHUP"}
    THEN [cs EXCEPT !.run = FALSE, !.handler = "shutdown"]
    ELSE IF cs.fifo = NoEntry THEN cs
    ELSE IF sig = "ABOUT_TO_SLEEP"
    THEN LET r == handle_unscheduled_checks(cs.inhibit_until, answers)
             checked == [cs EXCEPT !.inhibit_until = r.inhibit_until,
                                   !.calls = [c \in Conds |-> @[c] + r.calls[c]],
                                   !.handler = "about_to_sleep"]
         IN  IF r.ret
             THEN send_message(checked, InhibitLine(ClientPid, r.inhibit_until))
             ELSE checked
    ELSE IF sig = "UNBIND" THEN [close_fifo(cs) EXCEPT !.handler = "unbind"]
    ELSE cs

\* checks with the bug of sending whenever a check ran, whatever
\* _handle_scheduled_checks returned.
checks_AlwaysSend(cs, answers) ==
    IF ~(cs.run /\ cs.fifo # NoEntry) THEN cs
    ELSE IF cs.schedule = <<>> THEN [cs EXCEPT !.exc = "ValueError"]
    ELSE IF now >= peek(cs.schedule).time
    THEN LET r == handle_scheduled_checks(cs.schedule, cs.inhibit_until, FALSE, answers)
             checked == [cs EXCEPT !.schedule = r.schedule,
                                   !.inhibit_until = r.inhibit_until,
                                   !.calls = [c \in Conds |-> @[c] + r.calls[c]]]
         IN  send_message(checked, InhibitLine(ClientPid, r.inhibit_until))
    ELSE cs

\* NoDozeClient.run, lines 244-247: the scheduled checks, when one is due.
checks(cs, answers) ==
    IF ~(cs.run /\ cs.fifo # NoEntry) THEN cs
    ELSE IF cs.schedule = <<>> THEN [cs EXCEPT !.exc = "ValueError"]
    ELSE IF now >= peek(cs.schedule).time
    THEN LET r == handle_scheduled_checks(cs.schedule, cs.inhibit_until, FALSE, answers)
             checked == [cs EXCEPT !.schedule = r.schedule,
                                   !.inhibit_until = r.inhibit_until,
                                   !.calls = [c \in Conds |-> @[c] + r.calls[c]]]
         IN  IF r.ret = "True"
             THEN send_message(checked, InhibitLine(ClientPid, r.inhibit_until))
             ELSE checked
    ELSE cs

\* One pass of the loop of NoDozeClient.run: the pipe is opened if none is,
\* poll returns the signal `sig` (or times out), and the due checks run.
run_pass(open_ok, sig, answers) ==
    LET begun == IF client_fifo = NoEntry
                 THEN open_fifo(ClientState, open_ok)
                 ELSE IF schedule = <<>>
                 THEN [ClientState EXCEPT !.exc = "ValueError"]
                 ELSE ClientState
        dispatched == IF begun.exc # "none" THEN begun
                      ELSE dispatch(begun, sig, answers)
    IN  IF dispatched.exc # "none" THEN dispatched
        ELSE checks(dispatched, answers)

\* NoDozeClient.add_inhibitor, called as main does: before run has entered
\* its loop with a pipe or has been told to stop.
AddInhibitor ==
    /\ ~client_loop
    /\ client_fifo = NoEntry
    /\ client_run
    /\ \E c \in Conds :
          IF c \in inhibiting_processes
          THEN /\ last' = Op("add_inhibitor", c, "ValueError")
               /\ UNCHANGED <<inhibiting_processes, schedule>>
          ELSE /\ inhibiting_processes' = inhibiting_processes \cup {c}
               /\ schedule' = offer(schedule, ScheduledCheck(now, c))
               /\ last' = Op("add_inhibitor", c, "None")
    /\ UNCHANGED <<now, sig_pipe, allow_pc, watcher_vars, si_vars, server_vars, fifo, base_dir, client_fifo,
                   open_pipes, client_first, client_inhibit_until, client_run,
                   client_loop>>

\* NoDozeClient.run is called: it raises without a condition and loops while
\* _run is set.
ClientRun ==
    /\ ~client_loop
    /\ IF inhibiting_processes = {}
       THEN /\ last' = Op("run_client", None, "ValueError")
            /\ UNCHANGED client_loop
       ELSE /\ client_loop' = client_run
            /\ last' = Op("run_client", None, "None")
    /\ UNCHANGED <<now, sig_pipe, allow_pc, watcher_vars, si_vars, server_vars, fifo, base_dir, client_fifo,
                   open_pipes, client_first, inhibiting_processes, schedule,
                   client_inhibit_until, client_run>>

\* The effect of one pass of the loop; a pass in which nothing happens (poll
\* timed out and nothing is due) is left out.  The pass ends run when it
\* raises or clears _run.
Pass(open_ok, sig, answers) ==
    /\ client_loop
    /\ sig # NoSignal
       \/ client_fifo = NoEntry
       \/ (schedule # <<>> /\ now >= peek(schedule).time)
    /\ \E cs \in {run_pass(open_ok, sig, answers)} :
          /\ cs.inhibit_until <= MaxTime
          /\ client_fifo' = cs.fifo
          /\ open_pipes' = cs.open_pipes
          /\ client_first' = cs.first
          /\ schedule' = cs.schedule
          /\ client_inhibit_until' = cs.inhibit_until
          /\ client_run' = cs.run
          /\ client_loop' = (cs.exc = "none" /\ cs.run)
          /\ fifo' = IF cs.to = DaemonFifo THEN fifo \o cs.sent ELSE fifo
          /\ last' = [Op("run_pass", cs.calls, cs.exc)
                      EXCEPT !.sent = cs.sent, !.handler = cs.handler]
    /\ UNCHANGED <<now, sig_pipe, allow_pc, watcher_vars, si_vars, server_vars, base_dir, inhibiting_processes>>

\* NoDozeClient.run, one pass of its loop with any signal and any answers of
\* the registered conditions; the open succeeds or fails where one is made.
\* A pass that begins without a pipe asks no condition, so that no answers
\* are drawn for it.
ClientPass ==
    \E open_ok \in (IF client_fifo = NoEntry THEN BOOLEAN ELSE {TRUE}),
       sig \in ClientSignals \cup {NoSignal},
       answers \in {a \in [Conds -> BOOLEAN] :
                       \A c \in Conds :
                          a[c] => (c \in inhibiting_processes /\ client_fifo # NoEntry)} :
       Pass(open_ok, sig, answers)

\* Another process creates the entry e of the directory, or removes it.
ToggleEntry(e) ==
    /\ base_dir' = IF e \in base_dir THEN base_dir \ {e} ELSE base_dir \cup {e}
    /\ last' = Op("dir_change", None, "None")
    /\ UNCHANGED <<now, sig_pipe, allow_pc, watcher_vars, si_vars, server_vars, fifo, client_fields>>

\* Any entry of the directory appears or disappears.
DirChange == \E e \in Entries : ToggleEntry(e)

\* The daemon's pipe appears or disappears.
DaemonFifoChange == ToggleEntry(DaemonFifo)

NextClient ==
    \/ AddInhibitor
    \/ ClientRun
    \/ ClientPass
    \/ DaemonFifoChange
    \/ Tick

\* The client alone: its loop, the daemon's pipe and the clock.
SpecClient == Init /\ [][NextClient]_vars

\* A pass of the loop of a client that has no pipe open: lines 218-220, poll
\* returns at RETRY_DELAY at the latest and the next pass tries to open.
ClientRetry == client_fifo = NoEntry /\ ClientPass

\* The running client without a pipe keeps making passes of its loop.
FairSpecClient == SpecClient /\ WF_vars(ClientRetry)

NextDiscovery ==
    \/ AddInhibitor
    \/ ClientRun
    \/ ClientPass
    \/ DirChange

\* The client and a directory whose entries come and go.
SpecDiscovery == Init /\ [][NextDiscovery]_vars

\* ------------------------------------------------------- Server lifecycle

\* Server.__exit__, lines 106-123: the pipe and the signal pipe are closed
\* and os.unlink(self._fifo_path) is called; an exception of unlink is logged
\* and __exit__ goes on.  unlink_ok tells whether unlink removes the name.
ServerExitUnlink(unlink_ok) ==
    /\ server_pc = "entered"
    /\ ~do_run
    /\ server_pc' = "closing"
    /\ base_dir' = IF unlink_ok THEN base_dir \ {DaemonFifo} ELSE base_dir
    /\ last' = Op("server_exit_unlink", None, IF unlink_ok THEN "None" ELSE "logged")
    /\ UNCHANGED <<now, sig_pipe, allow_pc, watcher_vars, si_vars, bound_clients, do_run, fifo, client_fields>>

\* Server.__exit__, lines 126-128: ScheduledInhibition.__exit__.
ServerExitInhibitor ==
    /\ server_pc = "closing"
    /\ \/ inhibit_until # None /\ ExitCancel
       \/ ExitSleepInhibitor
       \/ ExitNull

\* ServerExitUnbind with the bug of clearing the set without signalling.
ServerExitUnbind_NoSignal(fails) ==
    /\ server_pc = "closing"
    /\ inhibit_until = None
    /\ exit_pc = 0
    /\ bound_clients' = {}
    /\ server_pc' = "exited"
    /\ last' = Op("server_exit_unbind", None, "None")
    /\ UNCHANGED <<now, sig_pipe, allow_pc, watcher_vars, si_vars, do_run, client_vars>>

\* Server.__exit__, lines 134-139: os.kill(client_pid, SIGUSR1) for every
\* bound pid, then the set is cleared; os.kill raises for the pids of
\* `fails` (logged).
ServerExitUnbind(fails) ==
    /\ server_pc = "closing"
    /\ inhibit_until = None
    /\ exit_pc = 0
    /\ bound_clients' = {}
    /\ server_pc' = "exited"
    /\ last' = [Op("server_exit_unbind", None, "None")
                  EXCEPT !.kills = {<<p, "UNBIND">> : p \in bound_clients \ fails}]
    /\ UNCHANGED <<now, sig_pipe, allow_pc, watcher_vars, si_vars, do_run, client_vars>>

\* Server.__exit__ from its beginning to its end, step by step.
ServerExit ==
    \/ \E unlink_ok \in BOOLEAN : ServerExitUnlink(unlink_ok)
    \/ ServerExitInhibitor
    \/ \E fails \in SUBSET bound_clients : ServerExitUnbind(fails)

\* The names that may be in BASE_DIR when a daemon starts: those of Entries
\* and a name without digits (as "FIFO_not_a_pid").
SweepEntries == Entries \cup {Entry("FIFO_", None, TRUE)}

\* Before the daemon starts, any of these names appears or disappears.
StaleChange ==
    /\ server_pc = "init"
    /\ \E e \in SweepEntries : ToggleEntry(e)

\* A second daemon process, of pid DaemonPid + 1, enters with the same
\* BASE_DIR: its _open sweeps the directory and makes its own pipe.  ps shows
\* the first daemon as it is: running no_dozed.py until it has exited.
OtherDaemonEnter ==
    /\ Entry("FIFO_", DaemonPid + 1, FALSE) \notin base_dir
    /\ \E first \in (IF server_pc = "exited" THEN PsOutcomes ELSE {"daemon"}),
          early \in SUBSET base_dir :
          LET swept == clear_stale_fifos(base_dir, PsSeenBy(DaemonPid + 1, first),
                                         early, DaemonPid + 1) IN
          /\ base_dir' = IF swept.exc # "none" THEN swept.dir
                         ELSE swept.dir \cup {Entry("FIFO_", DaemonPid + 1, FALSE)}
          /\ last' = Op("other_daemon_enter", None,
                        IF swept.exc = "none" THEN "None" ELSE swept.exc)
    /\ UNCHANGED <<now, sig_pipe, allow_pc, watcher_vars, si_vars, server_vars, fifo, client_fields>>

\* Server.run reads a BindMessage line of the pid p from its pipe.
ReceiveBind ==
    /\ do_run
    /\ \E p \in Pids : ReceiveLine(BindLine(p, {"attempt"}))
    /\ UNCHANGED <<now, sig_pipe, allow_pc, watcher_vars, sleep_inhibitor, login_manager_interface, exit_pc,
                   server_pc, client_vars>>

NextLifecycle ==
    \/ StaleChange
    \/ ServerEnter
    \/ OtherDaemonEnter
    \/ RunStart
    \/ ReceiveBind
    \/ ReceiveSignal
    \/ ServerExit

\* The daemon from start-up to shut-down, with the names left in BASE_DIR
\* and a second daemon.
SpecLifecycle == Init /\ [][NextLifecycle]_vars

\* ------------------------------------------------------- client and daemon

\* Server.run, the pipe is readable: _receive_message reads the oldest line
\* written to the pipe.
PipeReceive ==
    /\ do_run
    /\ fifo # <<>>
    /\ ReceiveLine(Head(fifo))
    /\ fifo' = Tail(fifo)
    /\ UNCHANGED <<now, sig_pipe, allow_pc, watcher_vars, sleep_inhibitor, login_manager_interface, exit_pc,
                   server_pc, base_dir, client_fields>>

\* A process writes to the daemon's pipe the line that MessageEncoder
\* produces for a BindMessage of the client's pid (its __dict__, `attempt`
\* included); the pipe is open to every process of the host.
WriteBind ==
    /\ DaemonFifo \in base_dir
    /\ ClientPid \notin bound_clients
    /\ fifo = <<>>
    /\ fifo' = Append(fifo, BindLine(ClientPid, {"attempt"}))
    /\ last' = Op("write_bind", None, "None")
    /\ UNCHANGED <<now, sig_pipe, allow_pc, watcher_vars, si_vars, server_vars, base_dir, client_fields>>

\* NoDozeClient.run, one pass of its loop in which no signal arrives and
\* every condition inhibits.
ClientInhibits ==
    \E open_ok \in BOOLEAN : Pass(open_ok, NoSignal, [c \in Conds |-> TRUE])

NextE2E ==
    \/ ServerEnter
    \/ RunStart
    \/ AddInhibitor
    \/ ClientRun
    \/ ClientInhibits
    \/ WriteBind
    \/ PipeReceive
    \/ TimerFire
    \/ UnsetInhibitor
    \/ Tick

\* The daemon and one client whose conditions always inhibit, joined by the
\* pipe.
SpecE2E == Init /\ [][NextE2E]_vars


\* The daemon and the client, each reading bytes from its own signal pipe.
NextSignals ==
    \/ ServerEnter
    \/ RunStart
    \/ ReceiveBind
    \/ ReceiveSignal
    \/ AddInhibitor
    \/ ClientRun
    \/ ClientPass

SpecSignals == Init /\ [][NextSignals]_vars

\* ----------------------------------------------------------- SleepWatcher

\* What a callback does: it returns or it raises.
CallbackOutcomes == {"return", "raise"}

SWUnchanged == UNCHANGED <<now, sig_pipe, allow_pc, si_vars, server_vars, client_vars>>

\* SleepWatcher(before_sleep_callback, awake_callback).__enter__(): either
\* callback may be None; a SleepInhibitor in delay mode is entered and the bus
\* connection is opened.
SWEnter ==
    /\ watcher_pc = "init"
    /\ ~watcher_connection
    /\ \E before \in BOOLEAN, awake \in BOOLEAN :
          /\ sleep_fn' = before
          /\ awake_fn' = awake
    /\ sleep_delay' = "open"
    /\ watcher_connection' = TRUE
    /\ watcher_pc' = "entered"
    /\ last' = Op("sw_enter", None, "self")
    /\ UNCHANGED <<watcher_run, delay_lock, preparing>>
    /\ SWUnchanged

\* What self._sleep_delay.inhibit_sleep() does in the watcher's thread: an
\* AttributeError when _sleep_delay is None, else SleepInhibitor.inhibit_sleep
\* (the interface of an exited SleepInhibitor is None).
delay_inhibit_sleep(acquire) ==
    IF sleep_delay = "none" THEN [lock |-> delay_lock, ret |-> "raise"]
    ELSE inhibit_sleep_on(delay_lock, sleep_delay = "open", acquire)

\* What self._sleep_delay.allow_sleep() does in the watcher's thread.
delay_allow_sleep ==
    IF sleep_delay = "none" THEN [lock |-> delay_lock, ret |-> "raise"]
    ELSE allow_sleep_on(delay_lock)

\* SleepWatcher.run up to its first receive: _run is set and the delay lock is
\* taken; an exception of inhibit_sleep leaves run.
SWRunStart ==
    /\ watcher_pc = "entered"
    /\ watcher_connection
    /\ watcher_run' = TRUE
    /\ \E acquire \in AcquireOutcomes :
          LET r == delay_inhibit_sleep(acquire)
          IN  /\ delay_lock' = r.lock
              /\ watcher_pc' = IF r.ret = "raise" THEN "raised" ELSE "recv"
              /\ last' = Op("sw_run", None, r.ret)
    /\ UNCHANGED <<watcher_connection, sleep_delay, sleep_fn, awake_fn, preparing>>
    /\ SWUnchanged

\* SWRecv with the bug of releasing the delay lock when the signal arrives,
\* before the callback is called.
SWRecv_ReleaseFirst(body) ==
    /\ watcher_pc = "recv"
    /\ watcher_run
    /\ watcher_connection
    /\ body = ~preparing
    /\ preparing' = body
    /\ delay_lock' = IF body THEN "none" ELSE delay_lock
    /\ watcher_pc' = IF body THEN (IF sleep_fn THEN "sleep_fn" ELSE "release")
                     ELSE "awake"
    /\ last' = Op("sw_recv", IF body THEN "True" ELSE "False", "signal")
    /\ UNCHANGED <<watcher_run, watcher_connection, sleep_delay, sleep_fn, awake_fn>>
    /\ SWUnchanged

\* recv_until_filtered returns a PrepareForSleep signal.  The login manager
\* sends true when a suspend begins and false when it is over, in turns.  On
\* true the thread calls _sleep_fn when there is one; on false it goes on to
\* take the delay lock.
SWRecv(body) ==
    /\ watcher_pc = "recv"
    /\ watcher_run
    /\ watcher_connection
    /\ body = ~preparing
    /\ preparing' = body
    /\ watcher_pc' = IF body THEN (IF sleep_fn THEN "sleep_fn" ELSE "release")
                     ELSE "awake"
    /\ last' = Op("sw_recv", IF body THEN "True" ELSE "False", "signal")
    /\ UNCHANGED <<watcher_run, watcher_connection, sleep_delay, delay_lock,
                   sleep_fn, awake_fn>>
    /\ SWUnchanged

\* recv_until_filtered raises (the connection was closed, or the bus failed):
\* the loop goes on, and ends when _run is False.
SWRecvError ==
    /\ watcher_pc = "recv"
    /\ watcher_pc' = IF watcher_run THEN "recv" ELSE "ended"
    /\ last' = Op("sw_recv_error", None, "raise")
    /\ UNCHANGED <<watcher_run, watcher_connection, sleep_delay, delay_lock,
                   sleep_fn, awake_fn, preparing>>
    /\ SWUnchanged

\* _sleep_fn() ends: an exception leaves run.
SWSleepFnReturn(outcome) ==
    /\ watcher_pc = "sleep_fn"
    /\ watcher_pc' = IF outcome = "raise" THEN "raised" ELSE "release"
    /\ last' = Op("sw_sleep_fn", None, outcome)
    /\ UNCHANGED <<watcher_run, watcher_connection, sleep_delay, delay_lock,
                   sleep_fn, awake_fn, preparing>>
    /\ SWUnchanged

\* self._sleep_delay.allow_sleep() after the callback, then the loop test.
SWRelease ==
    /\ watcher_pc = "release"
    /\ LET r == delay_allow_sleep
       IN  /\ delay_lock' = r.lock
           /\ watcher_pc' = IF r.ret = "raise" THEN "raised"
                            ELSE IF watcher_run THEN "recv" ELSE "ended"
           /\ last' = Op("sw_release", None, r.ret)
    /\ UNCHANGED <<watcher_run, watcher_connection, sleep_delay, sleep_fn,
                   awake_fn, preparing>>
    /\ SWUnchanged

\* self._sleep_delay.inhibit_sleep() on an awake signal; an exception leaves
\* run, else _awake_fn is called when there is one.
SWAwakeInhibit(acquire) ==
    /\ watcher_pc = "awake"
    /\ LET r == delay_inhibit_sleep(acquire)
       IN  /\ delay_lock' = r.lock
           /\ watcher_pc' = IF r.ret = "raise" THEN "raised"
                            ELSE IF awake_fn THEN "awake_fn"
                            ELSE IF watcher_run THEN "recv" ELSE "ended"
           /\ last' = Op("sw_inhibit", acquire, r.ret)
    /\ UNCHANGED <<watcher_run, watcher_connection, sleep_delay, sleep_fn,
                   awake_fn, preparing>>
    /\ SWUnchanged

\* _awake_fn() ends, then the loop test.
SWAwakeFnReturn(outcome) ==
    /\ watcher_pc = "awake_fn"
    /\ watcher_pc' = IF outcome = "raise" THEN "raised"
                     ELSE IF watcher_run THEN "recv" ELSE "ended"
    /\ last' = Op("sw_awake_fn", None, outcome)
    /\ UNCHANGED <<watcher_run, watcher_connection, sleep_delay, delay_lock,
                   sleep_fn, awake_fn, preparing>>
    /\ SWUnchanged

\* SleepWatcher.__exit__, called by another thread, up to
\* self._sleep_delay.__exit__: _run is cleared, the connection is closed and
\* the SleepInhibitor releases its lock.
SWExitClose ==
    /\ watcher_pc # "init"
    /\ sleep_delay = "open"
    /\ watcher_run' = FALSE
    /\ watcher_connection' = FALSE
    /\ delay_lock' = "none"
    /\ sleep_delay' = "exited"
    /\ last' = Op("sw_exit", None, "closing")
    /\ UNCHANGED <<watcher_pc, sleep_fn, awake_fn, preparing>>
    /\ SWUnchanged

\* SleepWatcher.__exit__: self._sleep_delay = None
SWExitClear ==
    /\ sleep_delay = "exited"
    /\ sleep_delay' = "none"
    /\ last' = Op("sw_exit", None, "None")
    /\ UNCHANGED <<watcher_pc, watcher_run, watcher_connection, delay_lock,
                   sleep_fn, awake_fn, preparing>>
    /\ SWUnchanged

SWSignal == \E body \in BOOLEAN : SWRecv(body)

SWSleepFn == \E outcome \in CallbackOutcomes : SWSleepFnReturn(outcome)

SWAwake == \E acquire \in AcquireOutcomes : SWAwakeInhibit(acquire)

SWAwakeFn == \E outcome \in CallbackOutcomes : SWAwakeFnReturn(outcome)

NextSW ==
    \/ SWEnter
    \/ SWRunStart
    \/ SWSignal
    \/ SWRecvError
    \/ SWSleepFn
    \/ SWRelease
    \/ SWAwake
    \/ SWAwakeFn
    \/ SWExitClose
    \/ SWExitClear

SpecSW == Init /\ [][NextSW]_vars

\* ---------------------------------------- the SleepWatcher of the Server

\* The bytes that wait in the signal pipe at most.
MaxPipe == 2

\* Server.__enter__, lines 99-100: the SleepWatcher is made with
\* before_sleep_callback alone and entered.
WatcherEnter ==
    /\ server_pc = "entered"
    /\ SWEnter
    /\ sleep_fn'
    /\ ~awake_fn'

\* The login manager announces a suspend or its end to the watcher's thread.
WatcherSignal ==
    /\ Len(sig_pipe) < MaxPipe
    /\ SWSignal

\* before_sleep_callback, run by the watcher's thread: os.write of the
\* about-to-sleep byte to _sig_w_fd, then time.sleep; an exception of the
\* write (Server.__exit__ closed the descriptor and set it to None) is logged.
BeforeSleepCallback ==
    /\ watcher_pc = "sleep_fn"
    /\ watcher_pc' = "release"
    /\ sig_pipe' = IF server_pc = "entered" THEN Append(sig_pipe, "ABOUT_TO_SLEEP")
                   ELSE sig_pipe
    /\ last' = Op("sw_sleep_fn", None, "return")
    /\ UNCHANGED <<now, allow_pc, si_vars, server_vars, client_vars, watcher_run,
                   watcher_connection, sleep_delay, delay_lock, sleep_fn, awake_fn,
                   preparing>>

\* A signal is delivered to the daemon: the runtime writes its number to the
\* wakeup descriptor, the write end of the signal pipe.
SignalArrives ==
    /\ server_pc = "entered"
    /\ Len(sig_pipe) < MaxPipe
    /\ \E sig \in Signals \ {"ABOUT_TO_SLEEP"} :
          /\ sig_pipe' = Append(sig_pipe, sig)
          /\ last' = Op("signal", sig, "None")
    /\ UNCHANGED <<now, allow_pc, watcher_vars, si_vars, server_vars, client_vars>>

\* Server.run, the signal pipe is readable: _receive_signal reads its oldest
\* byte, or the read fails.
PollSignal ==
    /\ do_run
    /\ sig_pipe # <<>>
    /\ \E read_ok \in BOOLEAN :
          /\ receive_signal(IF read_ok THEN Head(sig_pipe) ELSE ReadError)
          /\ sig_pipe' = IF read_ok THEN Tail(sig_pipe) ELSE sig_pipe
    /\ UNCHANGED <<now, allow_pc, watcher_vars, si_vars, server_pc, client_vars>>

NextSleepSignal ==
    \/ ServerEnter
    \/ WatcherEnter
    \/ RunStart
    \/ ReceiveBind
    \/ SWRunStart
    \/ WatcherSignal
    \/ SWRecvError
    \/ BeforeSleepCallback
    \/ SWRelease
    \/ SWAwake
    \/ SignalArrives
    \/ PollSignal
    \/ ServerExit

\* The daemon with its SleepWatcher thread and its signal pipe.
SpecSleepSignal == Init /\ [][NextSleepSignal]_vars

\* The main thread goes on to call run and run goes on to poll; the watcher's
\* thread goes on with the callback it was about to call.
FairSpecSleepSignal ==
    /\ SpecSleepSignal
    /\ WF_vars(RunStart)
    /\ WF_vars(PollSignal)
    /\ WF_vars(BeforeSleepCallback)

\* ------------------------------ allow_sleep, statement by statement

\* _schedule_lock is free: no Timer thread is inside unset_inhibitor.
MutexFree == allow_pc["timer"] \in {"idle", "raised"}

RaceUnchanged ==
    UNCHANGED <<now, sig_pipe, watcher_vars, server_vars, client_vars, inhibit_until,
                sleep_inhibitor, timer>>

\* set_inhibitor called by the owner; it waits for _schedule_lock.
LockedSetInhibitor == MutexFree /\ SetInhibitor

\* The callback of a Timer takes _schedule_lock and runs unset_inhibitor up to
\* the test of allow_sleep (sleep_inhibitor.py line 107): it returns when
\* unset_inhibitor refuses or no lock object is set, else it goes on to
\* release the lock.
UnsetBegin ==
    /\ MutexFree
    /\ \E d \in Times :
          /\ timers[d] = "started"
          /\ timers' = [timers EXCEPT ![d] = "done"]
          /\ LET go == Opened /\ create_unlock_callback(d) = inhibit_until IN
             /\ allow_pc' = [allow_pc EXCEPT !["timer"] =
                                 IF go /\ sleep_lock # "none" THEN "checked" ELSE "idle"]
             /\ last' = Op("unset_begin", d, IF go THEN "True" ELSE "False")
    /\ UNCHANGED <<sleep_lock, login_manager_interface, exit_pc>>
    /\ RaceUnchanged

\* SleepInhibitor.__exit__ called by ScheduledInhibition.__exit__ (line 94,
\* outside _schedule_lock) up to the test of allow_sleep: with no lock object
\* set it drops the bus and returns.
ExitAllowBegin ==
    /\ exit_pc = 1
    /\ allow_pc["main"] = "idle"
    /\ IF sleep_inhibitor /\ sleep_lock # "none"
       THEN /\ allow_pc' = [allow_pc EXCEPT !["main"] = "checked"]
            /\ UNCHANGED <<exit_pc, login_manager_interface>>
       ELSE /\ exit_pc' = 2
            /\ login_manager_interface' = (~sleep_inhibitor /\ login_manager_interface)
            /\ UNCHANGED allow_pc
    /\ last' = Op("exit_allow_begin", None, "None")
    /\ UNCHANGED <<sleep_lock, timers>>
    /\ RaceUnchanged

\* allow_sleep line 110, self._sleep_lock.release(), up to the test of
\* release (line 27): the attribute is read again, and is None when the other
\* thread has cleared it (AttributeError).
AllowRelease(t) ==
    /\ allow_pc[t] = "checked"
    /\ allow_pc' = [allow_pc EXCEPT ![t] =
                       IF sleep_lock = "none" THEN "raised"
                       ELSE IF sleep_lock = "taken" THEN "closing" ELSE "released"]
    /\ last' = Op("allow_release", t,
                  IF sleep_lock = "none" THEN "AttributeError" ELSE "None")
    /\ UNCHANGED <<sleep_lock, timers, login_manager_interface, exit_pc>>
    /\ RaceUnchanged

\* release line 29, os.close(self._open_descriptor): the descriptor is
\* closed; or the other thread has closed that number already (the call
\* raises, which is logged, or closes whatever has the number now); or the
\* other thread has set _open_descriptor to None (TypeError, logged).
AllowClose(t) ==
    /\ allow_pc[t] = "closing"
    /\ LET other == CHOOSE o \in Threads : o # t IN
       IF sleep_lock # "taken"
       THEN /\ allow_pc' = [allow_pc EXCEPT ![t] = "released"]
            /\ last' = Op("allow_close", t, "TypeError")
       ELSE IF allow_pc[other] = "closed"
       THEN /\ \E next \in {"released", "closed"} :
                  allow_pc' = [allow_pc EXCEPT ![t] = next]
            /\ last' = Op("allow_close", t, "closed_twice")
       ELSE /\ allow_pc' = [allow_pc EXCEPT ![t] = "closed"]
            /\ last' = Op("allow_close", t, "closed")
    /\ UNCHANGED <<sleep_lock, timers, login_manager_interface, exit_pc>>
    /\ RaceUnchanged

\* release line 30: self._open_descriptor = None
AllowStore(t) ==
    /\ allow_pc[t] = "closed"
    /\ allow_pc' = [allow_pc EXCEPT ![t] = "released"]
    /\ sleep_lock' = IF sleep_lock = "taken" THEN "untaken" ELSE sleep_lock
    /\ last' = Op("allow_store", t, "None")
    /\ UNCHANGED <<timers, login_manager_interface, exit_pc>>
    /\ RaceUnchanged

\* allow_sleep line 111, self._sleep_lock = None, and the return: the Timer's
\* thread leaves _schedule_lock, the owner goes on in SleepInhibitor.__exit__
\* (lines 128-130).
AllowClear(t) ==
    /\ allow_pc[t] = "released"
    /\ allow_pc' = [allow_pc EXCEPT ![t] = "idle"]
    /\ sleep_lock' = "none"
    /\ IF t = "main"
       THEN /\ exit_pc' = 2
            /\ login_manager_interface' = FALSE
       ELSE UNCHANGED <<exit_pc, login_manager_interface>>
    /\ last' = Op("allow_clear", t, "True")
    /\ UNCHANGED timers
    /\ RaceUnchanged

\* ScheduledInhibition.__exit__, lines 95-98, waits for _schedule_lock.
LockedExitNull == MutexFree /\ ExitNull

AllowStep ==
    \E t \in Threads :
       AllowRelease(t) \/ AllowClose(t) \/ AllowStore(t) \/ AllowClear(t)

NextRace ==
    \/ Enter
    \/ LockedSetInhibitor
    \/ Tick
    \/ TimerFire
    \/ UnsetBegin
    \/ ExitCancel
    \/ ExitAllowBegin
    \/ AllowStep
    \/ LockedExitNull

\* ScheduledInhibition with the statements of allow_sleep interleaved between
\* a Timer's thread and the owner's __exit__.
SpecRace == InitComponent /\ [][NextRace]_vars

\* ------------------------------------------- a daemon replaced by another

\* The pipe of the second daemon.
NewDaemonFifo == Entry("FIFO_", DaemonPid + 1, FALSE)

\* The daemon's process ends without running Server.__exit__ (it is killed):
\* its pipe is not unlinked and no client is signalled.
DaemonKilled ==
    /\ server_pc = "entered"
    /\ server_pc' = "exited"
    /\ do_run' = FALSE
    /\ last' = Op("daemon_killed", None, "None")
    /\ UNCHANGED <<now, sig_pipe, allow_pc, watcher_vars, si_vars, bound_clients, client_vars>>

NextRebind ==
    \/ AddInhibitor
    \/ ClientRun
    \/ ClientPass
    \/ ServerEnter
    \/ RunStart
    \/ ReceiveSignal
    \/ ServerExit
    \/ DaemonKilled
    \/ OtherDaemonEnter

\* The client, the daemon it connects to, and the daemon that follows, within
\* one reading of the clock.
SpecRebind == Init /\ [][NextRebind]_vars

\* The same; a client without a pipe retries at RETRY_DELAY.
FairSpecRebind == SpecRebind /\ WF_vars(ClientRetry)

\* ------------------------------------------------------------------ C1

C2_MonotonicDeadline ==
    [][ /\ (inhibit_until # None /\ inhibit_until' # None)
            => inhibit_until' >= inhibit_until
        /\ (last'.op = "set_inhibitor" /\ inhibit_until # None
              /\ last'.arg <= inhibit_until)
            => /\ last'.ret = "False"
               /\ UNCHANGED <<inhibit_until, sleep_lock, timer, timers>>
      ]_vars

\* A request for a future time that does not exceed the deadline in place was
\* refused while the lock is held.
C2_Witness ==
    /\ InScope
    /\ last.op = "set_inhibitor"
    /\ last.ret = "False"
    /\ last.arg > now
    /\ last.arg <= inhibit_until
    /\ is_inhibiting

\* ------------------------------------------------------------------ C3

\* C3: a release callback created for the deadline d releases the lock only if
\* inhibit_until still equals d; if the deadline has moved it returns False
\* and the lock is as it was.
C3_CallbackRechecksDeadline ==
    [][ last'.op = "unset_inhibitor"
          => /\ (last'.ret = "True" \/ sleep_lock' # sleep_lock)
                  => last'.arg = inhibit_until
             /\ (last'.arg # inhibit_until)
                  => (last'.ret = "False" /\ sleep_lock' = sleep_lock)
      ]_vars

\* A callback that had begun before a later set_inhibitor moved the deadline
\* has run, returned False, and the lock is still held.
C3_Witness ==
    /\ InScope
    /\ last.op = "unset_inhibitor"
    /\ last.ret = "False"
    /\ last.arg < inhibit_until
    /\ sleep_lock = "taken"

\* ------------------------------------------------------------------ C4

\* C4: once the lock is held, no set_inhibitor call and no Timer releases it
\* before the greatest accepted deadline (inhibit_until): every release other
\* than scope-exit happens at or after that deadline, and a set_inhibitor call
\* never releases the lock.
C4_NoReleaseBeforeDeadline ==
    [][ (is_inhibiting /\ sleep_lock' = "none" /\ last'.op # "exit_sleep_inhibitor")
          => /\ inhibit_until # None
             /\ now >= inhibit_until
             /\ last'.op = "unset_inhibitor"
      ]_vars

\* The callback of a superseded deadline has run and the lock is still held,
\* the extended deadline being in the future.
C4_Witness ==
    /\ InScope
    /\ is_inhibiting
    /\ now < inhibit_until
    /\ \E d \in Times : d < inhibit_until /\ timers[d] = "done"

\* ------------------------------------------------------------------ C5

\* C5: after set_inhibitor(until) returned True, unless a later call moves the
\* deadline or the scope is left, the release callback for `until` eventually
\* runs and releases the lock.
C5_EventuallyReleased ==
    \A d \in Times :
        (InScope /\ last.op = "set_inhibitor" /\ last.ret = "True" /\ inhibit_until = d)
        ~> \/ (last.op = "unset_inhibitor" /\ last.arg = d /\ last.ret = "True"
                 /\ sleep_lock = "none")
           \/ inhibit_until # d
           \/ exit_pc # 0

\* The release callback of the current deadline has released the lock.
C5_Witness ==
    /\ InScope
    /\ last.op = "unset_inhibitor"
    /\ last.ret = "True"
    /\ last.arg = inhibit_until
    /\ sleep_lock = "none"
    /\ now >= inhibit_until

\* ------------------------------------------------------------------ C6

\* C6: a condition of a bound client that inhibits on every call inhibits
\* sleep forever: once the daemon holds the lock for the client's first
\* InhibitMessage it holds it at every later instant, with no gap between
\* consecutive periods.
C6_LockHeldWithoutGap ==
    [][ (ClientPid \in bound_clients /\ sleep_lock = "taken")
          => sleep_lock' = "taken"
      ]_vars

\* ------------------------------------------------------------------ C7

\* C7: when the daemon processes an InhibitMessage(pid = p, expiry = t) with
\* t > now from a pid p bound by an earlier BindMessage, inhibited() is true
\* immediately afterwards.
C7_InhibitedAfterBindThenInhibit ==
    [][ ( /\ last'.op = "receive_message"
          /\ loads(last'.line).type = "InhibitMessage"
          /\ last'.line.pid \in bound_clients
          /\ loads(last'.line).expiry_timestamp > now )
          => inhibited'
      ]_vars

\* An InhibitMessage of a bound pid for a future time has just started an
\* inhibition.
C7_Witness ==
    /\ last.op = "receive_message"
    /\ loads(last.line).type = "InhibitMessage"
    /\ last.line.pid \in bound_clients
    /\ last.line.expiry_timestamp > now
    /\ last.ret = "True"
    /\ inhibited
    /\ is_inhibiting

\* ------------------------------------------------------------------ C8

\* C8: an InhibitMessage whose pid is not bound changes neither inhibit_until,
\* the sleep lock, the release Timer nor the bound clients, and inhibited()
\* stays false if it was false.
C8_UnboundInhibitIgnored ==
    [][ ( /\ last'.op = "receive_message"
          /\ last'.line.type = "InhibitMessage"
          /\ last'.line.pid \notin bound_clients )
          => /\ UNCHANGED <<inhibit_until, sleep_lock, timer, timers, bound_clients>>
             /\ (~inhibited => ~inhibited')
      ]_vars

\* An InhibitMessage for a future time from an unbound pid was ignored while
\* another pid is bound and nothing is inhibited.
C8_Witness ==
    /\ last.op = "receive_message"
    /\ last.line.type = "InhibitMessage"
    /\ last.line.pid \notin bound_clients
    /\ last.line.expiry_timestamp > now
    /\ last.ret = "ignored"
    /\ bound_clients # {}
    /\ ~inhibited
    /\ ~is_inhibiting

\* ------------------------------------------------------------------ C9

\* C9: processing a BindMessage of pid p leaves exactly the pids bound before
\* plus p: nothing changes when p was bound already, and no other pid is
\* displaced.
C9_BindAddsAndKeeps ==
    [][ (last'.op = "receive_message" /\ loads(last'.line).type = "BindMessage")
          => bound_clients' = bound_clients \cup {last'.line.pid}
      ]_vars

\* A BindMessage of an already bound pid was processed while two pids are
\* bound.
C9_Witness ==
    /\ last.op = "receive_message"
    /\ last.ret = "already_bound"
    /\ last.line.pid \in bound_clients
    /\ Cardinality(bound_clients) >= 2

\* ----------------------------------------------------------------- C10

\* C10: every BindMessage line read from a pid that is not bound, the line
\* with the wire fields type, version, pid and uid among them, leaves that pid
\* bound or sends it a signal of rejection.
C10_BindBoundOrRejected ==
    [][ ( /\ last'.op = "receive_message"
          /\ last'.line.type = "BindMessage"
          /\ last'.line.pid \notin bound_clients )
          => \/ last'.line.pid \in bound_clients'
             \/ \E k \in last'.kills : k[1] = last'.line.pid
      ]_vars

\* ----------------------------------------------------------------- C11

\* The line is one the daemon has to drop: it fails to decode, has an unknown
\* type, or is an InhibitMessage of a sender that is not bound.
Dropped(line) ==
    \/ loads(line).type \notin {"BindMessage", "InhibitMessage"}
    \/ loads(line).type = "InhibitMessage" /\ line.pid \notin bound_clients

\* C11: a line that fails to decode, has an unknown type or comes from an
\* unbound sender leaves the bound clients and inhibit_until unchanged and
\* does not stop the daemon loop.
C11_DroppedLineKeepsLoop ==
    [][ (last'.op = "receive_message" /\ Dropped(last'.line))
          => /\ UNCHANGED <<bound_clients, inhibit_until>>
             /\ do_run'
      ]_vars

\* ----------------------------------------------------------------- C12

\* C12: on an opened ScheduledInhibition, set_inhibitor(until) returns true
\* exactly when it changes state, that is exactly when
\* until > max(now, inhibit_until), and returns false in every other case.
C12_TrueIffStateChanged ==
    [][ (last'.op = "set_inhibitor" /\ Opened)
          => /\ last'.ret \in {"True", "False"}
             /\ last'.ret = "True" <=> last'.arg > Max(now, inhibit_until)
             /\ last'.ret = "True" <=>
                   <<inhibit_until, sleep_lock, timer, timers>>'
                      # <<inhibit_until, sleep_lock, timer, timers>>
      ]_vars

\* C12, amended: on an opened ScheduledInhibition, set_inhibitor(until)
\* returns false exactly when until <= max(now, inhibit_until), and then it
\* changes nothing; it returns true only when until > max(now, inhibit_until),
\* and then the deadline is until and the release Timer of until is pending;
\* when until > max(now, inhibit_until) and acquiring the lock fails it raises,
\* having recorded the deadline and cancelled the previous Timer.
C12_TrueOnlyOnTransition ==
    [][ (last'.op = "set_inhibitor" /\ Opened)
          => /\ last'.ret = "False" <=> last'.arg <= Max(now, inhibit_until)
             /\ last'.ret = "False"
                   => UNCHANGED <<inhibit_until, sleep_lock, timer, timers>>
             /\ last'.ret = "True"
                   => /\ inhibit_until' = last'.arg
                      /\ is_inhibiting'
                      /\ timer' = last'.arg
                      /\ timers'[last'.arg] = "pending"
             /\ last'.ret = "raise"
                   => /\ inhibit_until' = last'.arg
                      /\ sleep_lock' # "taken"
                      /\ timer' = timer
                      /\ timers' = Cancel(timer)
      ]_vars

\* set_inhibitor has just extended an inhibition: it returned True, the lock
\* is taken, the Timer of the new deadline is pending and an earlier Timer was
\* cancelled.
C12_Witness ==
    /\ last.op = "set_inhibitor"
    /\ last.ret = "True"
    /\ Opened
    /\ inhibit_until = last.arg
    /\ sleep_lock = "taken"
    /\ timers[last.arg] = "pending"
    /\ \E d \in Times : timers[d] = "cancelled"

\* ----------------------------------------------------------------- C13

\* C13: on an entered ScheduledInhibition, set_inhibitor(t) with t <= now
\* returns false and takes no lock when none is held; an inhibition that is in
\* place keeps its deadline, its lock and its release Timer.
C13_PastRequestIsNoOp ==
    [][ (last'.op = "set_inhibitor" /\ inhibit_until # None /\ last'.arg <= now)
          => /\ last'.ret = "False"
             /\ UNCHANGED <<inhibit_until, sleep_lock, timer, timers>>
      ]_vars

\* A request for the past was just refused while an inhibition with a later
\* deadline is in place, its lock taken and its release Timer pending.
C13_Witness ==
    /\ last.op = "set_inhibitor"
    /\ last.arg <= now
    /\ last.ret = "False"
    /\ now > 0
    /\ inhibit_until > now
    /\ sleep_lock = "taken"
    /\ timer = inhibit_until
    /\ timers[timer] = "pending"

\* ----------------------------------------------------------------- C14

\* C14: set_inhibitor on a ScheduledInhibition that was exited or never
\* entered returns False without raising, acquires no lock and starts no
\* Timer.
C14_ClosedReturnsFalse ==
    [][ (last'.op = "set_inhibitor" /\ inhibit_until = None)
          => /\ last'.ret = "False"
             /\ UNCHANGED <<inhibit_until, sleep_lock, timer, timers>>
      ]_vars

\* ----------------------------------------------------------------- C15

EntriesOf(sched, c) ==
    Cardinality({i \in 1..Len(sched) : sched[i].inhibiting_process = c})

\* C16: between the client's operations the schedule holds exactly one
\* ScheduledCheck for each registered condition and none for any other, so
\* its length is the number of registered conditions; and a pass of the loop
\* that rescheduled checks leaves the same conditions in the schedule, each
\* entry at a time that is not before the present.
C16_ScheduleConservation ==
    /\ [](/\ Len(schedule) = Cardinality(inhibiting_processes)
          /\ \A c \in Conds :
                EntriesOf(schedule, c) = (IF c \in inhibiting_processes THEN 1 ELSE 0))
    /\ [][(last'.op = "run_pass" /\ schedule' # schedule)
            => /\ \A c \in Conds : EntriesOf(schedule', c) = EntriesOf(schedule, c)
               /\ \A i \in 1..Len(schedule') : schedule'[i].time >= now]_vars

\* C16 happens: a pass of the connected client has just rescheduled the
\* checks of two registered conditions, each one period from the present.
C16_Witness ==
    /\ last.op = "run_pass"
    /\ last.ret = "none"
    /\ client_fifo # NoEntry
    /\ now > 0
    /\ Cardinality(inhibiting_processes) = 2
    /\ \A c \in inhibiting_processes :
          \E i \in 1..Len(schedule) :
             /\ schedule[i].inhibiting_process = c
             /\ schedule[i].time = now + period(c)

\* The time of the entry of the condition c in the schedule sched.
TimeOf(sched, c) ==
    sched[CHOOSE i \in 1..Len(sched) : sched[i].inhibiting_process = c].time

\* The message a pass of scheduled checks must write when the conditions
\* answer as `answers` say: none unless a due condition inhibits and the
\* latest next time of the due inhibiting conditions exceeds _inhibit_until,
\* and then one InhibitMessage carrying that time.
ExpectedSent(answers) ==
    LET due == {c \in inhibiting_processes : TimeOf(schedule, c) <= now}
        inhibiting == {c \in due : answers[c]}
        latest == MaxOf({TimeOf(schedule', c) : c \in inhibiting} \cup {0})
    IN  IF client_fifo # NoEntry /\ latest > client_inhibit_until
        THEN <<InhibitLine(ClientPid, latest)>>
        ELSE <<>>

\* C17: a pass of the client's loop writes InhibitMessages only when it
\* increased _inhibit_until, each carries a deadline above the previous one
\* and the last carries the new _inhibit_until; a pass of scheduled checks
\* (the pass that changes the schedule) writes nothing when no due condition
\* inhibits or when none of their next times exceeds _inhibit_until, and
\* otherwise writes one message carrying the latest next time of the due
\* inhibiting conditions, which is the new _inhibit_until.
C17_MessageOnlyOnIncrease ==
    [][last'.op = "run_pass" =>
        /\ client_inhibit_until' >= client_inhibit_until
        /\ client_inhibit_until' = client_inhibit_until => last'.sent = <<>>
        /\ last'.sent # <<>> =>
              /\ last'.sent[Len(last'.sent)] = InhibitLine(ClientPid, client_inhibit_until')
              /\ \A i \in 1..Len(last'.sent) :
                    \E t \in (client_inhibit_until + 1)..client_inhibit_until' :
                       last'.sent[i] = InhibitLine(ClientPid, t)
        /\ schedule' # schedule =>
              \A answers \in {a \in [Conds -> BOOLEAN] :
                                \A c \in Conds \ inhibiting_processes : ~a[c]} :
                 Pass(TRUE, NoSignal, answers) =>
                    /\ last'.sent = ExpectedSent(answers)
                    /\ last'.sent # <<>> =>
                          last'.sent = <<InhibitLine(ClientPid, client_inhibit_until')>>
      ]_vars

\* C17 happens: a pass checked two conditions and wrote one InhibitMessage
\* that carries the new _inhibit_until, the later of their two next times.
C17_Witness ==
    /\ last.op = "run_pass"
    /\ inhibiting_processes = Conds
    /\ last.sent = <<InhibitLine(ClientPid, client_inhibit_until)>>
    /\ client_inhibit_until = now + period(MaxConds)
    /\ \A c \in Conds : TimeOf(schedule, c) = now + period(c)

\* C18: the client holds at most one open pipe, and a pass of its loop opens
\* a pipe only when exactly one name of BASE_DIR is FIFO_<digits> (the
\* prefix, a pid and nothing after it), and then it opens that one; with no
\* such name or several it stays unconnected.
C18_OpensOnlySoleCandidate ==
    /\ [](open_pipes <= 1)
    /\ [][(last'.op = "run_pass" /\ client_fifo = NoEntry /\ client_fifo' # NoEntry)
            => LET candidates == {e \in base_dir :
                                    e.stem = "FIFO_" /\ e.pid # None /\ ~e.suffix}
               IN  /\ Cardinality(candidates) = 1
                   /\ client_fifo' \in candidates]_vars

\* C19: the first line the client wrote to the pipe it opened last is a
\* BindMessage carrying the client's pid, so no InhibitMessage is written on
\* a pipe before the BindMessage.
C19_BindIsFirstMessage ==
    client_first # NoLine =>
       /\ client_first.type = "BindMessage"
       /\ client_first.pid = ClientPid

\* C20: when the unbind signal has made a connected client close its pipe
\* while the daemon's pipe is the only name of BASE_DIR, a following pass
\* writes a BindMessage, unless the directory changes first.
C20_UnbindLeadsToBind ==
    (/\ last.op = "run_pass"
     /\ client_loop
     /\ client_fifo = NoEntry
     /\ client_first # NoLine
     /\ base_dir = {DaemonFifo})
    ~> (\/ \E i \in 1..Len(last.sent) : last.sent[i].type = "BindMessage"
        \/ base_dir # {DaemonFifo})

\* C21: a pass of the client's loop that reads a SIGINT, SIGTERM or SIGHUP
\* byte clears _run and ends run without sending a line, changing the
\* schedule or _inhibit_until, with a pipe open or not; and once _run is
\* cleared run never loops, sends or checks again.
C21_ShutdownSignalStopsClient ==
    /\ [](~client_run => ~client_loop)
    /\ [][~client_run =>
            /\ last'.sent = <<>>
            /\ schedule' = schedule
            /\ client_inhibit_until' = client_inhibit_until]_vars
    /\ [][(last'.op = "run_pass" /\ last'.ret = "none") =>
            \A open_ok \in BOOLEAN, sig \in {"SIGINT", "SIGTERM", "SIGHUP"} :
               Pass(open_ok, sig, [c \in Conds |-> FALSE]) =>
                  /\ ~client_run'
                  /\ ~client_loop'
                  /\ last'.sent = <<>>
                  /\ schedule' = schedule
                  /\ client_inhibit_until' = client_inhibit_until]_vars

\* C21 happens: a pass has cleared _run while a pipe was open and a
\* scheduled check was due, and nothing was sent.
C21_Witness ==
    /\ last.op = "run_pass"
    /\ last.ret = "none"
    /\ ~client_run
    /\ ~client_loop
    /\ client_fifo # NoEntry
    /\ schedule # <<>>
    /\ now >= peek(schedule).time
    /\ last.sent = <<>>

\* C22: when the daemon's loop reads a SIGINT, SIGTERM or SIGHUP byte from
\* its signal pipe the loop ends; when it reads the about-to-sleep byte or
\* any other signal byte the loop keeps running.
C22_ShutdownSignalStopsDaemon ==
    [][/\ \A sig \in {"SIGINT", "SIGTERM", "SIGHUP"} : ReceiveSig(sig) => ~do_run'
       /\ \A sig \in Signals \ {"SIGINT", "SIGTERM", "SIGHUP"} :
             ReceiveSig(sig) => do_run']_vars

\* C22 happens: the loop has ended on a signal byte with a client bound and
\* the sleep lock held.
C22_Witness ==
    /\ last.op = "receive_signal"
    /\ last.ret = "False"
    /\ ~do_run
    /\ bound_clients # {}
    /\ sleep_lock = "taken"

C24_PipeExistsWhileEntered ==
    /\ server_pc = "entered" => DaemonFifo \in base_dir
    /\ server_pc = "exited" => DaemonFifo \notin base_dir

\* C25: after _handle_about_to_sleep the bound clients are exactly those of
\* the clients bound before for which one of the KillAttempts calls of
\* os.kill returned; the others are dropped, no pid is added, and each
\* remaining pid was signalled once: the number of calls that returned is
\* the number of remaining pids.
C25_FanOutKeepsSignalledClients ==
    [][last'.op = "about_to_sleep" =>
        \A fails \in [bound_clients -> 0..KillAttempts] :
           handle_about_to_sleep(fails) =>
              /\ bound_clients' = {p \in bound_clients : fails[p] < KillAttempts}
              /\ bound_clients' \subseteq bound_clients
              /\ last'.kills = {<<p, "ABOUT_TO_SLEEP">> : p \in bound_clients'}
              /\ last'.arg = Cardinality(bound_clients')]_vars

\* C25 happens: a fan-out to two bound clients has kept one and dropped the
\* other.
C25_Witness ==
    /\ last.op = "about_to_sleep"
    /\ Cardinality(bound_clients) = 1
    /\ last.arg = 1
    /\ Cardinality(last.kills) = 1

\* C26: at start-up the entry FIFO_<n> of another pid n is deleted when the
\* lookup of n fails or n runs another command, and when n runs the daemon
\* the entry is kept and start-up fails with FileExistsError (the
\* AlreadyRunning of the specification).
C26_SweepDeletesIffStale ==
    [][last'.op = "server_enter" =>
        \A other \in PsOutcomes, early \in SUBSET base_dir :
           (/\ ServerEnterWith(PsSeenBy(DaemonPid, other), early)
            /\ Entry("FIFO_", DaemonPid + 1, FALSE) \in base_dir)
           => IF other = "daemon"
              THEN /\ last'.ret = "FileExistsError"
                   /\ Entry("FIFO_", DaemonPid + 1, FALSE) \in base_dir'
                   /\ server_pc' = "init"
              ELSE /\ Entry("FIFO_", DaemonPid + 1, FALSE) \notin base_dir'
                   /\ server_pc' = "entered"]_vars

\* C27: start-up deletes no entry of BASE_DIR whose name is not exactly
\* FIFO_<digits>.
C27_SweepKeepsOtherNames ==
    [][last'.op = "server_enter" =>
        \A e \in base_dir :
           ~(e.stem = "FIFO_" /\ e.pid # None /\ ~e.suffix) => e \in base_dir']_vars

\* The number of positions of a queue that hold element e.
Count(sched, e) == Cardinality({i \in 1..Len(sched) : sched[i] = e})

\* C28: after any sequence of offer, poll and peek on a PriorityQueue, poll and
\* peek return an element of the queue than which no element has a smaller
\* time; an offer adds its element and makes the queue one longer, a poll
\* that returns takes the returned element out and makes it one shorter, a
\* peek leaves the queue as it is (so the length is the number of offers less
\* the number of polls that returned); poll and peek fail on an empty queue,
\* only there, and leave it empty.
C28_PeekIsMinimum ==
    [][/\ last'.op = "pq_offer" =>
             /\ Len(schedule') = Len(schedule) + 1
             /\ \A t \in Times, c \in Conds :
                   Count(schedule', ScheduledCheck(t, c)) =
                      Count(schedule, ScheduledCheck(t, c))
                      + (IF last'.arg = ScheduledCheck(t, c) THEN 1 ELSE 0)
       /\ (last'.op \in {"pq_poll", "pq_peek"} /\ schedule = <<>>) =>
             (last'.ret = "ValueError" /\ schedule' = <<>>)
       /\ (last'.op \in {"pq_poll", "pq_peek"} /\ schedule # <<>>) =>
             /\ last'.ret = "item"
             /\ \E i \in 1..Len(schedule) : schedule[i] = last'.arg
             /\ \A i \in 1..Len(schedule) : last'.arg.time <= schedule[i].time
       /\ (last'.op = "pq_peek") => schedule' = schedule
       /\ (last'.op = "pq_poll" /\ schedule # <<>>) =>
             /\ Len(schedule') = Len(schedule) - 1
             /\ \A t \in Times, c \in Conds :
                   Count(schedule', ScheduledCheck(t, c)) =
                      Count(schedule, ScheduledCheck(t, c))
                      - (IF last'.arg = ScheduledCheck(t, c) THEN 1 ELSE 0)
      ]_vars

\* A poll has returned from a queue that is left with three elements, one of
\* them later than the element returned.
C28_Witness ==
    /\ last.op = "pq_poll"
    /\ last.ret = "item"
    /\ Len(schedule) = 3
    /\ \E i \in 1..Len(schedule) : schedule[i].time > last.arg.time

\* ----------------------------------------------------------------- C29

\* C29: on a PrepareForSleep signal with preparing = true the SleepWatcher
\* calls the before-sleep callback, once and no other callback, and releases
\* the delay lock only after that callback has returned: the thread enters
\* the callback only in the step that receives a true signal, it comes to the
\* release only from the returned callback (or straight from the signal when
\* there is no callback), and while the watcher is open the delay lock is
\* held as long as the callback runs and is given up by the release alone.
C29_ReleaseAfterSleepCallback ==
    [][/\ (watcher_pc' = "sleep_fn" /\ sleep_delay' = "open") =>
             delay_lock' = "taken"
       /\ (watcher_pc' = "sleep_fn" /\ watcher_pc # "sleep_fn") =>
             (last'.op = "sw_recv" /\ last'.arg = "True" /\ sleep_fn)
       /\ (last'.op = "sw_recv" /\ last'.arg = "True") =>
             /\ watcher_pc' = IF sleep_fn THEN "sleep_fn" ELSE "release"
             /\ delay_lock' = delay_lock
       /\ (watcher_pc' = "release" /\ watcher_pc # "release" /\ sleep_fn) =>
             (watcher_pc = "sleep_fn" /\ last'.op = "sw_sleep_fn"
                 /\ last'.ret = "return")
       /\ (watcher_pc' = "awake_fn" /\ watcher_pc # "awake_fn") =>
             (watcher_pc = "awake" /\ ~preparing)
       /\ (delay_lock = "taken" /\ delay_lock' # "taken") =>
             \/ last'.op = "sw_release" /\ watcher_pc = "release"
             \/ last'.op = "sw_exit"
      ]_vars

\* The before-sleep callback has returned and the release that followed it
\* gave up the delay lock.
C29_Witness ==
    /\ last.op = "sw_release"
    /\ last.ret = "True"
    /\ sleep_fn
    /\ preparing
    /\ delay_lock = "none"
    /\ sleep_delay = "open"

\* ----------------------------------------------------------------- C30

\* C30: on a PrepareForSleep signal with preparing = false the SleepWatcher
\* takes the delay lock again and then calls the awake callback: the step of
\* an open watcher that follows the receipt of a false signal leaves the
\* delay lock held and, when there is an awake callback, the thread inside
\* it; and the thread is inside the awake callback only with the lock held.
C30_AwakeReacquiresThenCalls ==
    [][/\ (watcher_pc = "awake" /\ sleep_delay = "open" /\ last'.op = "sw_inhibit") =>
             /\ delay_lock' = "taken"
             /\ awake_fn => watcher_pc' = "awake_fn"
       /\ (watcher_pc' = "awake_fn" /\ sleep_delay' = "open") =>
             delay_lock' = "taken"
      ]_vars

\* ----------------------------------------------------------------- C31

\* The answers the registered conditions may give in one pass.
Answers ==
    {a \in [Conds -> BOOLEAN] : \A c \in Conds \ inhibiting_processes : ~a[c]}

\* The conditions whose entry of the schedule is due.
Due == {c \in inhibiting_processes : TimeOf(schedule, c) <= now}

\* C31: a pass of scheduled checks (no signal read) takes every due entry out
\* of the schedule and offers it again one period after its time, or one
\* period after the present when that would lie in the past; it leaves the
\* other entries alone and calls does_inhibit once on each due condition and
\* on no other.
C31_OneCheckPerDueCondition ==
    [][(/\ last'.op = "run_pass"
        /\ schedule' # schedule
        /\ \E answers \in Answers : Pass(TRUE, NoSignal, answers))
         => \A c \in inhibiting_processes :
               IF c \in Due
               THEN /\ last'.arg[c] = 1
                    /\ TimeOf(schedule', c) =
                          IF TimeOf(schedule, c) + period(c) < now
                          THEN now + period(c)
                          ELSE TimeOf(schedule, c) + period(c)
               ELSE /\ last'.arg[c] = 0
                    /\ TimeOf(schedule', c) = TimeOf(schedule, c)
      ]_vars

\* ----------------------------------------------------------------- C32

\* The deadline a last-gasp check reaches when the conditions answer as
\* `answers` say: the latest of now + period over the inhibiting conditions,
\* if that is beyond _inhibit_until.
LastGasp(answers) ==
    MaxOf({now + period(c) : c \in {p \in inhibiting_processes : answers[p]}}
             \cup {client_inhibit_until})

\* C32: the about-to-sleep branch of the signal dispatch runs in a pass that
\* began with a pipe open, and when a connected client reads the
\* about-to-sleep signal, the pass writes an InhibitMessage with the deadline of the last-gasp check first of
\* all if that check raised _inhibit_until and writes none for it otherwise;
\* when no scheduled check is due in that pass, does_inhibit has been called
\* once on every registered condition, the schedule is as it was and
\* _inhibit_until is the deadline of the last-gasp check.
C32_LastGaspKeepsSchedule ==
    [][(last'.op = "run_pass" /\ last'.handler = "about_to_sleep") =>
          \A answers \in Answers :
             Pass(TRUE, "ABOUT_TO_SLEEP", answers) =>
                /\ client_fifo # NoEntry
                /\ LastGasp(answers) > client_inhibit_until =>
                      /\ last'.sent # <<>>
                      /\ last'.sent[1] = InhibitLine(ClientPid, LastGasp(answers))
                /\ LastGasp(answers) = client_inhibit_until =>
                      \A i \in 1..Len(last'.sent) :
                         last'.sent[i].expiry_timestamp > client_inhibit_until
                /\ \A c \in inhibiting_processes : last'.arg[c] >= 1
                /\ now < peek(schedule).time =>
                      /\ schedule' = schedule
                      /\ client_inhibit_until' = LastGasp(answers)
                      /\ Len(last'.sent) <= 1
                      /\ last'.sent = <<>> <=> client_inhibit_until' = client_inhibit_until
                      /\ \A c \in Conds :
                            last'.arg[c] = IF c \in inhibiting_processes THEN 1 ELSE 0
      ]_vars

\* A pass of a connected client called does_inhibit once on each of its
\* conditions and wrote one InhibitMessage with the new _inhibit_until, which
\* is one period of the slowest condition from the present and later than
\* the scheduled check of that condition: it comes from the last-gasp check.
C32_Witness ==
    /\ last.op = "run_pass"
    /\ last.ret = "none"
    /\ client_fifo # NoEntry
    /\ inhibiting_processes = Conds
    /\ \A c \in Conds : last.arg[c] = 1
    /\ last.handler = "about_to_sleep"
    /\ TimeOf(schedule, MaxConds) < client_inhibit_until
    /\ last.sent = <<InhibitLine(ClientPid, client_inhibit_until)>>
    /\ client_inhibit_until = now + period(MaxConds)

\* ----------------------------------------------------------------- C33

\* C33: a pass of the loop that begins and ends without an open pipe calls
\* does_inhibit on no condition and writes nothing; it leaves the schedule
\* and _inhibit_until as they were, whatever signal it read and whatever
\* check is due; it clears _run and ends the loop when the signal is a
\* shutdown signal and only then, so the about-to-sleep and unbind signals
\* change nothing at all.
C33_NoChecksWithoutPipe ==
    [][(last'.op = "run_pass" /\ client_fifo = NoEntry /\ client_fifo' = NoEntry) =>
          /\ \A c \in Conds : last'.arg[c] = 0
          /\ last'.sent = <<>>
          /\ UNCHANGED <<schedule, client_inhibit_until, fifo, open_pipes>>
          /\ last'.handler \in {"none", "shutdown"}
          /\ IF last'.handler = "shutdown"
             THEN ~client_run' /\ ~client_loop'
             ELSE UNCHANGED <<client_run, client_loop>>
          /\ \A open_ok \in BOOLEAN, sig \in ClientSignals :
                Pass(open_ok, sig, [c \in Conds |-> FALSE]) =>
                   (last'.handler = "shutdown" <=> sig \in {"SIGTERM", "SIGINT", "SIGHUP"})
      ]_vars

\* A pass of a running client without a pipe has ended without one although
\* a scheduled check was due, and the client runs on.
C33_Witness ==
    /\ last.op = "run_pass"
    /\ client_fifo = NoEntry
    /\ open_pipes = 0
    /\ client_loop
    /\ now > 0
    /\ schedule # <<>>
    /\ now >= peek(schedule).time

\* ----------------------------------------------------------------- C34

\* C34: a failed read of the signal pipe stops the loop that made it: after
\* it the daemon's Server.run no longer runs, and the client's run has
\* cleared _run and left its loop.
C34_ReadFailureStopsLoops ==
    [][/\ ReceiveSig(ReadError) => ~do_run'
       /\ last'.op = "run_pass" =>
             \A open_ok \in BOOLEAN, answers \in Answers :
                Pass(open_ok, ReadError, answers) => (~client_run' /\ ~client_loop')
      ]_vars

\* C35: an InhibitMessage whose lock acquisition fails inside set_inhibitor
\* leaves the daemon running with _inhibit_until at the requested deadline, no
\* new Timer and no descriptor held; from then on a request beyond the
\* recorded deadline is accepted, it takes the lock when the SleepInhibitor
\* has no lock object, and when the failed take left a lock object behind the
\* request starts a Timer whose callback clears it, so that a later request
\* takes the lock.
AcquisitionFailed ==
    /\ last.op = "receive_message"
    /\ last.ret = "raise"
    /\ last.line.type = "InhibitMessage"
    /\ inhibit_until = last.line.expiry_timestamp

C36_SleepByteReachesMainLoop ==
    /\ [][/\ (watcher_vars' # watcher_vars)
             => /\ UNCHANGED <<now, si_vars, server_vars, client_vars>>
                /\ sig_pipe' = IF watcher_pc = "sleep_fn" /\ server_pc = "entered"
                               THEN Append(sig_pipe, "ABOUT_TO_SLEEP")
                               ELSE sig_pipe
          /\ (last'.op = "about_to_sleep")
             => \A fails \in [bound_clients -> 0..KillAttempts] :
                   handle_about_to_sleep(fails)
                   => (\A p \in bound_clients :
                          fails[p] < KillAttempts
                          => <<p, "ABOUT_TO_SLEEP">> \in last'.kills)
         ]_vars
    /\ (watcher_pc = "sleep_fn" /\ server_pc = "entered")
          ~> \/ last.op = "about_to_sleep"
             \/ last.op = "receive_signal" /\ last.ret = "False"
             \/ server_pc # "entered"

C36_Witness ==
    /\ last.op = "about_to_sleep"
    /\ preparing
    /\ watcher_pc = "release"
    /\ sig_pipe = <<>>
    /\ last.kills = {<<p, "ABOUT_TO_SLEEP">> : p \in Pids}

\* C37 as stated, for the SleepInhibitor of the SleepWatcher: is_inhibiting
\* is true exactly while a descriptor is held, that is from an inhibit_sleep
\* that returned True to the next allow_sleep or __exit__; inhibit_sleep with
\* a lock held returns False and takes nothing; allow_sleep returns True
\* exactly when a held descriptor was closed.
DelayInhibiting == delay_lock # "none"

C37_OneDescriptorAtATime ==
    [][/\ DelayInhibiting' <=> (delay_lock' = "taken")
       /\ (last'.op \in {"sw_run", "sw_inhibit"} /\ DelayInhibiting)
          => (last'.ret = "False" /\ delay_lock' = delay_lock)
       /\ (last'.op = "sw_release")
          => (last'.ret = "True" <=> (delay_lock = "taken" /\ delay_lock' = "none"))
       /\ (~DelayInhibiting /\ DelayInhibiting')
          => (last'.op \in {"sw_run", "sw_inhibit"} /\ last'.ret = "True")
       /\ (DelayInhibiting /\ ~DelayInhibiting')
          => last'.op \in {"sw_release", "sw_exit"}
      ]_vars

\* C38 as stated: whatever the interleaving of a Timer's unset_inhibitor with
\* __exit__, a thread inside allow_sleep finds the lock object it tested
\* (no read of a cleared _sleep_lock) and each os.close closes a descriptor
\* that is open and was not closed by the other thread.
C38_ReleaseRaceFree ==
    [][/\ (last'.op = "allow_release") => (last'.ret = "None")
       /\ (last'.op = "allow_close") => (last'.ret = "closed")
      ]_vars

\* The expiry timestamps of the InhibitMessages among the lines, in order.
InhibitExpiries(lines) ==
    LET s == SelectSeq(lines, LAMBDA l : l.type = "InhibitMessage")
    IN  [i \in 1..Len(s) |-> s[i].expiry_timestamp]

StrictlyIncreasing(seq) ==
    \A i \in 1..Len(seq), j \in 1..Len(seq) : i < j => seq[i] < seq[j]

\* C39: no step decreases the client's _inhibit_until; the InhibitMessages a
\* pass writes carry strictly increasing expiry timestamps, all above the
\* _inhibit_until the pass began with and none above the one it ends with;
\* and the InhibitMessages written to the daemon's pipe so far are in
\* strictly increasing order of expiry timestamp, none above _inhibit_until.
C39_InhibitUntilMonotone ==
    [][/\ client_inhibit_until' >= client_inhibit_until
       /\ (last'.op = "run_pass")
          => LET exp == InhibitExpiries(last'.sent) IN
             /\ StrictlyIncreasing(exp)
             /\ \A i \in 1..Len(exp) :
                   exp[i] > client_inhibit_until /\ exp[i] <= client_inhibit_until'
       /\ StrictlyIncreasing(InhibitExpiries(fifo'))
       /\ \A i \in 1..Len(InhibitExpiries(fifo')) :
             InhibitExpiries(fifo')[i] <= client_inhibit_until'
      ]_vars

\* C39 happens: three InhibitMessages are in the pipe, the last of them
\* written by a last-gasp check.
C39_Witness ==
    /\ last.op = "run_pass"
    /\ last.handler = "about_to_sleep"
    /\ Len(InhibitExpiries(last.sent)) = 1
    /\ Len(InhibitExpiries(fifo)) >= 3

\* C40 as stated: once the daemon whose pipe the client has open is gone and
\* the pipe of a new daemon is in BASE_DIR, the client comes to have the new
\* pipe open with a BindMessage as the first line written to it.
C40_ClientRebinds ==
    (/\ server_pc = "exited"
     /\ client_fifo = DaemonFifo
     /\ NewDaemonFifo \in base_dir)
    ~> (client_fifo = NewDaemonFifo /\ client_first.type = "BindMessage")

====
